---- MODULE Spec2Model ----
(***************************************************************************)
(* WellNest backend: the nutrition and training-load analytics engine.     *)
(*                                                                         *)
(* SpecScore   the scorers of app/core/calculations.py, pure functions,    *)
(*             applied to inputs drawn from bounded sets;                  *)
(* SpecDeficit calculate_daily_deficit of app/api/v1/deficit.py over a     *)
(*             profile and the food and workout rows it queries, and the   *)
(*             weekly summary and weight projection built on it;           *)
(* SpecAthlete log_athlete_metrics and get_performance_summary of          *)
(*             app/api/v1/athlete.py over the athlete_metrics table, with  *)
(*             requests of two threads in flight;                          *)
(* SpecNutrition the nutrition-goal functions of calculations.py, one call *)
(*             on a day of the system clock;                               *)
(* SpecClock   calculate_all_nutrition_goals called twice while the system *)
(*             clock moves on;                                             *)
(* SpecProfile complete_onboarding and update_profile of                   *)
(*             app/api/v1/user.py over the user's profile row, while the   *)
(*             system clock moves on;                                      *)
(* SpecStreak  update_streak of app/services/gamification.py, called on    *)
(*             the days of the system clock;                               *)
(* SpecFasting the endpoints of app/api/v1/fasting.py over the             *)
(*             fasting_logs table, with requests of two threads in flight. *)
(*                                                                         *)
(* An operator that uses an intermediate value several times takes it as   *)
(* the parameter of a local operator (Balance(bmr), Week(day_data), ...),  *)
(* so that the expression of the value is written, and evaluated, once.    *)
(*                                                                         *)
(* Python floats are modelled by exact rationals [n, d] in lowest terms:   *)
(* every /, *, +, - of the source is the rational operation, int() is      *)
(* truncation toward zero and round(x, k) is rounding to the nearest       *)
(* multiple of 10^-k.  The binary rounding error of IEEE doubles is not    *)
(* represented, except in activity_mult - 1 (MultiplierMinusOne): where    *)
(* the exact value lies halfway between two multiples, round goes to the   *)
(* even one here and the double of the source may go to either.  A Python  *)
(* exception is the result [raises |-> TRUE].                              *)
(***************************************************************************)
EXTENDS Integers, Sequences, FiniteSets, TLC

VARIABLES
    call,       \* the last pure-function call: function name, arguments, result
    metrics,    \* rows of the athlete_metrics table (committed)
    requests,   \* log_athlete_metrics requests in flight, per worker thread
    calls,      \* number of log_athlete_metrics requests received so far
    summary,    \* answer of get_performance_summary, once it has been called
    clock,      \* the system date, what date.today() returns
    earlier,    \* the call made before the last one
    current_user,   \* the user's row of the users table, with its xp_logs
                    \* and achievements
    user_profile,   \* the user's row of the user_profiles table, if any
    fasting_logs,   \* rows of the fasting_logs table (committed)
    utcnow,     \* what datetime.utcnow() returns, in hours
    answer    \* the last answer of an endpoint of the account

vars == <<call, metrics, requests, calls, summary, clock, earlier,
         current_user, user_profile, fasting_logs, utcnow, answer>>

\* what the endpoints of user.py and fasting.py read and write
account == <<current_user, user_profile, fasting_logs, utcnow, answer>>

----------------------------------------------------------------------------
(* Optional values: None is the empty tuple, a present value v is <<v>>.   *)

None == <<>>

Some(v) == <<v>>

IsNone(x) == x = <<>>

Val(x) == x[1]

------------------------------------------------------------\* app/models.py, User: the column defaults of a new row
NewUser ==
    [is_athlete |-> FALSE, xp |-> 0, level |-> 1, streak_days |-> 0,
     last_activity_date |-> None, xp_logs |-> <<>>, achievements |-> {}]

\* a registered user without profile or fasts
NoAccount ==
    /\ current_user = NewUser
    /\ user_profile = None
    /\ fasting_logs = {}
    /\ utcnow = 0
    /\ answer = None

----------------
(* Calendar dates are <<year, month, day>>.                                *)

Date(year, month, day) == <<year, month, day>>

\* the days the system clock passes through: the day before a birthday of
\* 15 June, the birthday, and the same two days a year on
ClockDays ==
    <<Date(2024, 6, 14), Date(2024, 6, 15), Date(2025, 6, 14), Date(2025, 6, 15)>>

----------------------------------------------------------------------------
(* Exact rational arithmetic standing for Python float arithmetic.         *)

Abs(x) == IF x < 0 THEN -x ELSE x

RECURSIVE Gcd(_, _)
Gcd(a, b) == IF b = 0 THEN a ELSE Gcd(b, a % b)

R(n, d) ==
    LET g == Gcd(Abs(n), Abs(d))
        s == IF d < 0 THEN -1 ELSE 1
    IN  [n |-> s * (n \div g), d |-> s * (d \div g)]

I(n) == [n |-> n, d |-> 1]

RAdd(a, b) == R(a.n * b.d + b.n * a.d, a.d * b.d)

RSub(a, b) == R(a.n * b.d - b.n * a.d, a.d * b.d)

RMul(a, b) == R(a.n * b.n, a.d * b.d)

\* a / b for b # 0; division by zero is decided by the caller (it raises).
RDiv(a, b) == R(a.n * b.d, a.d * b.n)

RLe(a, b) == a.n * b.d <= b.n * a.d

RLt(a, b) == a.n * b.d < b.n * a.d

RMax(a, b) == IF RLt(a, b) THEN b ELSE a

RMin(a, b) == IF RLt(b, a) THEN b ELSE a

RIsZero(a) == a.n = 0

\* rounding to the nearest integer, halves away from zero
RoundHalfUpInt(a) == IF a.n >= 0 THEN (2 * a.n + a.d) \div (2 * a.d)
                     ELSE -((2 * (-a.n) + a.d) \div (2 * a.d))

\* round(x, 2) and round(x, 1): the nearest multiple of 1/scale, an exact
\* half going to the even neighbour
RoundHalfEven(a) ==
    LET f == a.n \div a.d
        twice_rest == 2 * (a.n - f * a.d)
    IN  IF twice_rest < a.d THEN f
        ELSE IF twice_rest > a.d THEN f + 1
        ELSE IF f % 2 = 0 THEN f ELSE f + 1

RoundedTowardZero(a, scale) ==
    LET x == RMul(a, I(scale))
    IN  R(IF x.n >= 0 THEN x.n \div x.d ELSE -((-x.n) \div x.d), scale)

RoundTo(a, scale) == R(RoundHalfEven(RMul(a, I(scale))), scale)

\* int(x): truncation toward zero.
Trunc(a) == IF a.n >= 0 THEN a.n \div a.d ELSE -((-a.n) \div a.d)

RECURSIVE RSum(_)
RSum(s) == IF s = <<>> THEN I(0) ELSE RAdd(Head(s), RSum(Tail(s)))

----------------------------------------------------------------------------
(* calculate_recovery_score                                                *)

Returned(v) == [raises |-> FALSE, value |-> v]

ZeroDivisionError == [raises |-> TRUE, value |-> 0]

SleepScore(sleep_hours) ==
    IF RLe(I(7), sleep_hours) /\ RLe(sleep_hours, I(9)) THEN I(100)
    ELSE IF RLt(sleep_hours, I(7))
         THEN RMax(I(0), RMul(RDiv(sleep_hours, I(7)), I(100)))
         ELSE RMax(I(0), RSub(I(100), RMul(RSub(sleep_hours, I(9)), I(10))))

HrScore(resting_hr, baseline_resting_hr) ==
    LET hr_diff == Abs(resting_hr - baseline_resting_hr)
    IN  RMax(I(0), I(100 - hr_diff * 5))

\* hrv_ms and baseline_hrv both present, baseline_hrv # 0
HrvRatioScore(hrv_ms, baseline_hrv) ==
    LET hrv_ratio == RDiv(I(hrv_ms), I(baseline_hrv))
    IN  IF RLe(I(1), hrv_ratio)
        THEN RMin(I(100), RAdd(I(80), RMul(RSub(hrv_ratio, I(1)), I(40))))
        ELSE RMax(I(0), RMul(hrv_ratio, I(80)))

\* hrv_ms present, no baseline
HrvAbsoluteScore(hrv_ms) == RMin(I(100), RMul(RDiv(I(hrv_ms), I(80)), I(100)))

HrvComponentFullWeight(hrv_ms, baseline_hrv) ==
    IF ~IsNone(hrv_ms) /\ ~IsNone(baseline_hrv)
    THEN << <<HrvRatioScore(Val(hrv_ms), Val(baseline_hrv)), R(20, 100)>> >>
    ELSE IF ~IsNone(hrv_ms)
         THEN << <<HrvAbsoluteScore(Val(hrv_ms)), R(20, 100)>> >>
         ELSE <<>>

\* the (score, weight) pairs the HRV block appends
HrvComponent(hrv_ms, baseline_hrv) ==
    IF ~IsNone(hrv_ms) /\ ~IsNone(baseline_hrv)
    THEN << <<HrvRatioScore(Val(hrv_ms), Val(baseline_hrv)), R(20, 100)>> >>
    ELSE IF ~IsNone(hrv_ms)
         THEN << <<HrvAbsoluteScore(Val(hrv_ms)), R(10, 100)>> >>
         ELSE <<>>

Invert(level) == IF IsNone(level) THEN <<>> ELSE <<I((11 - Val(level)) * 10)>>

SubjectiveScores(muscle_soreness, fatigue_level, stress_level) ==
    Invert(muscle_soreness) \o Invert(fatigue_level) \o Invert(stress_level)

SubjectiveComponent(muscle_soreness, fatigue_level, stress_level) ==
    LET subjective_scores ==
            SubjectiveScores(muscle_soreness, fatigue_level, stress_level)
    IN  IF subjective_scores # <<>>
        THEN << <<RDiv(RSum(subjective_scores), I(Len(subjective_scores))),
                  R(20, 100)>> >>
        ELSE <<>>

\* the scores and weights lists, as one list of (score, weight) pairs
Components(a) ==
    << <<SleepScore(a.sleep_hours), R(35, 100)>>,
       <<HrScore(a.resting_hr, a.baseline_resting_hr), R(25, 100)>> >>
    \o HrvComponent(a.hrv_ms, a.baseline_hrv)
    \o SubjectiveComponent(a.muscle_soreness, a.fatigue_level, a.stress_level)

NormalizedWeightsNotDivided(weights) ==
    [i \in DOMAIN weights |-> weights[i]]

NormalizedWeights(weights) ==
    LET total_weight == RSum(weights)
    IN  [i \in DOMAIN weights |-> RDiv(weights[i], total_weight)]

WeightedAverage(comps) ==
    LET scores  == [i \in DOMAIN comps |-> comps[i][1]]
        weights == [i \in DOMAIN comps |-> comps[i][2]]
        normalized_weights == NormalizedWeights(weights)
    IN  RSum([i \in DOMAIN comps |-> RMul(scores[i], normalized_weights[i])])

Unclamped(v) == v

Clamp(v) == IF v < 0 THEN 0 ELSE IF v > 100 THEN 100 ELSE v

RoundedScore(x) == RoundHalfUpInt(x)

IntScore(x) == Trunc(x)

calculate_recovery_score(a) ==
    IF ~IsNone(a.hrv_ms) /\ ~IsNone(a.baseline_hrv) /\ Val(a.baseline_hrv) = 0
    THEN ZeroDivisionError
    ELSE Returned(Clamp(IntScore(WeightedAverage(Components(a)))))

----------------------------------------------------------------------------
(* calculate_readiness_score                                               *)

AcwrScore(training_load_7day, training_load_28day) ==
    IF RLt(I(0), training_load_28day)
    THEN LET acwr == RDiv(training_load_7day, training_load_28day)
         IN  IF RLe(R(8, 10), acwr) /\ RLe(acwr, R(13, 10)) THEN I(100)
             ELSE IF RLt(acwr, R(8, 10))
                  THEN RMax(I(0), RMul(RDiv(acwr, R(8, 10)), I(100)))
                  ELSE RMax(I(0), RSub(I(100), RMul(RSub(acwr, R(13, 10)), I(100))))
    ELSE I(50)

\* avg_sleep_hours # 0
SleepPatternScore(sleep_hours, avg_sleep_hours) ==
    LET sleep_ratio == RDiv(sleep_hours, avg_sleep_hours)
    IN  IF RLe(I(1), sleep_ratio) THEN I(100)
        ELSE RMax(I(0), RMul(sleep_ratio, I(100)))

ReadinessTermsSwappedWeights(a) ==
    <<RMul(I(a.recovery_score), R(30, 100)),
      RMul(AcwrScore(a.training_load_7day, a.training_load_28day), R(40, 100)),
      RMul(SleepPatternScore(a.sleep_hours, a.avg_sleep_hours), R(30, 100))>>

ReadinessTerms(a) ==
    <<RMul(I(a.recovery_score), R(40, 100)),
      RMul(AcwrScore(a.training_load_7day, a.training_load_28day), R(30, 100)),
      RMul(SleepPatternScore(a.sleep_hours, a.avg_sleep_hours), R(30, 100))>>

calculate_readiness_score(a) ==
    IF RIsZero(a.avg_sleep_hours)
    THEN ZeroDivisionError
    ELSE Returned(Clamp(IntScore(RSum(ReadinessTerms(a)))))

----------------------------------------------------------------------------
(* Inputs of the scorer calls                                              *)

MaxSleepHalfHours == 22

SleepHours == {R(k, 2) : k \in 0..MaxSleepHalfHours} \cup {I(19), I(20)}

RestingHrs == {39, 40, 50, 56, 60, 61, 64, 65, 70, 80, 81}

BaselineHrs == {60}

HrvValues == {None, Some(-80), Some(0), Some(40), Some(80), Some(120)}

BaselineHrvValues == {None, Some(0), Some(40), Some(80)}

SorenessLevels == {None, Some(1), Some(6), Some(10)}

FatigueLevels == {None, Some(6)}

StressLevels == {None, Some(1)}

RecoveryArgs ==
    [sleep_hours : SleepHours, resting_hr : RestingHrs,
     baseline_resting_hr : BaselineHrs, hrv_ms : HrvValues,
     baseline_hrv : BaselineHrvValues, muscle_soreness : SorenessLevels,
     fatigue_level : FatigueLevels, stress_level : StressLevels]

RecoveryScoresIn == {-20, 0, 1, 5, 33, 50, 75, 80, 99, 100, 150}

TrainingLoads == {I(0), I(40), I(70), I(80), I(100), I(130), I(131), I(200), I(250)}

ChronicLoads == {I(0), I(70), I(100)}

ReadinessSleep == {I(0), I(4), I(6), R(15, 2), I(8)}

AvgSleep == {I(0), I(6), R(15, 2), I(8)}

ReadinessArgs ==
    [recovery_score : RecoveryScoresIn, training_load_7day : TrainingLoads,
     training_load_28day : ChronicLoads,
     sleep_hours : ReadinessSleep, avg_sleep_hours : AvgSleep]

NoCall == [fn |-> "none"]

\* One scorer call per behaviour: the functions keep no state between calls.
CallRecovery ==
    /\ call = NoCall
    /\ \E a \in RecoveryArgs :
          call' = [fn |-> "calculate_recovery_score", args |-> a,
                   result |-> calculate_recovery_score(a)]
    /\ UNCHANGED <<metrics, requests, calls, summary, clock, earlier, account>>

CallReadiness ==
    /\ call = NoCall
    /\ \E a \in ReadinessArgs :
          call' = [fn |-> "calculate_readiness_score", args |-> a,
                   result |-> calculate_readiness_score(a)]
    /\ UNCHANGED <<metrics, requests, calls, summary, clock, earlier, account>>

InitScore ==
    /\ call = NoCall
    /\ metrics = {}
    /\ requests = <<>>
    /\ calls = 0
    /\ summary = None
    /\ clock = ClockDays[1]
    /\ earlier = NoCall
    /\ NoAccount


----------------------------------------------------------------------------
(* Claims about the scorers, checked under SpecScore                       *)

IsRecoveryCall == call.fn = "calculate_recovery_score"

IsReadinessCall == call.fn = "calculate_readiness_score"

\* the divisors the scorers divide by (baseline_hrv, avg_sleep_hours) are not 0
DivisorsNonZero ==
    /\ IsRecoveryCall =>
          ~(~IsNone(call.args.hrv_ms) /\ call.args.baseline_hrv = Some(0))
    /\ IsReadinessCall => ~RIsZero(call.args.avg_sleep_hours)

AllComponentsScore(comps, s) == \A i \in DOMAIN comps : comps[i][1] = s

\* C2: the weights of the components present are renormalized to sum to 1:
\* whenever every present component of a recovery call has the same score s,
\* the result is s; sleep in 7..9 with resting_hr = baseline_resting_hr and
\* no HRV or subjective input gives 100.
C2_Renormalized ==
    (IsRecoveryCall /\ DivisorsNonZero) =>
        LET comps == Components(call.args)
            s == comps[1][1]
        IN  /\ AllComponentsScore(comps, s) => I(call.result.value) = s
            /\ ( /\ RLe(I(7), call.args.sleep_hours)
                 /\ RLe(call.args.sleep_hours, I(9))
                 /\ call.args.resting_hr = call.args.baseline_resting_hr
                 /\ IsNone(call.args.hrv_ms)
                 /\ IsNone(call.args.muscle_soreness)
                 /\ IsNone(call.args.fatigue_level)
                 /\ IsNone(call.args.stress_level) )
                => call.result.value = 100

\* all four components present (HRV without baseline, weight 0.10) and all 50
C2_Witness ==
    /\ IsRecoveryCall
    /\ DivisorsNonZero
    /\ Len(Components(call.args)) = 4
    /\ IsNone(call.args.baseline_hrv)
    /\ AllComponentsScore(Components(call.args), I(50))
    /\ call.result = Returned(50)

SleepAndHrOnly(sleep, diff) ==
    /\ IsRecoveryCall
    /\ call.args.sleep_hours = I(sleep)
    /\ Abs(call.args.resting_hr - call.args.baseline_resting_hr) = diff
    /\ IsNone(call.args.hrv_ms)
    /\ IsNone(call.args.muscle_soreness)
    /\ IsNone(call.args.fatigue_level)
    /\ IsNone(call.args.stress_level)

\* C3 as stated: sleep 8 h, heart rate 4 bpm off baseline, nothing else: 93.
C3_Returns93 == SleepAndHrOnly(8, 4) => call.result = Returned(93)

\* C3 amended: sleep 8 h, heart rate 4 bpm off baseline, nothing else: the
\* weighted sum 100 * 0.35/0.60 + 80 * 0.25/0.60 = 91.67 is truncated to 91.
C3_Returns91 == SleepAndHrOnly(8, 4) => call.result = Returned(91)

C3_Witness ==
    /\ SleepAndHrOnly(8, 4)
    /\ WeightedAverage(Components(call.args)) = R(275, 3)
    /\ call.result = Returned(91)

\* the sleep pattern score as the specification states it
C4_SleepPattern(sleep_hours, avg_sleep_hours) ==
    IF RLe(avg_sleep_hours, sleep_hours) THEN I(100)
    ELSE RMul(RDiv(sleep_hours, avg_sleep_hours), I(100))

----------------------------------------------------------------------------
(* The athlete_metrics table and POST /metrics (log_athlete_metrics)       *)

\* timedelta(days=7) and timedelta(days=28)
AcuteDays == 7

ChronicDays == 28

\* the columns AthleteMetricsCreate carries besides date
DataFields ==
    {"training_load", "training_duration_min", "rpe_score", "hrv_score",
     "resting_hr", "sleep_hours", "muscle_soreness", "fatigue_level",
     "stress_level"}

\* the derived columns; AthleteMetric has no recovery_score column
ComputedFields == {"readiness_score", "acute_load", "chronic_load", "acwr"}

\* reading an attribute the object does not have
AttributeError == [raises |-> TRUE, value |-> "AttributeError"]

\* Python truthiness of an optional number
Truthy(x) == ~IsNone(x) /\ Val(x) # 0

TruthyR(x) == ~IsNone(x) /\ ~RIsZero(Val(x))

\* The session flushes pending changes before each query (app/db.py
\* configures the session; SQLAlchemy's default).
SessionAutoflush == TRUE

\* generate_uuid: a fresh primary key
generate_uuid(table, user_id, date) ==
    <<user_id, date,
      Cardinality({r \in table : r.user_id = user_id /\ r.date = date}) + 1>>

\* AthleteMetric(user_id=..., **data.model_dump())
NewMetric(table, user_id, data) ==
    [f \in DataFields \cup ComputedFields \cup {"id", "user_id", "date"} |->
        IF f = "id" THEN generate_uuid(table, user_id, data.date)
        ELSE IF f = "user_id" THEN user_id
        ELSE IF f = "date" THEN data.date
        ELSE IF f \in DataFields THEN data[f]
        ELSE None]

\* setattr(metric, field, value) for every value of data that is not None
UpdateFromData(metric, data) ==
    [f \in DOMAIN metric |->
        IF f \in DataFields /\ ~IsNone(data[f]) THEN data[f] ELSE metric[f]]

\* metric.training_load = data.rpe_score * data.training_duration_min
WithTrainingLoad(metric, data) ==
    IF Truthy(data.rpe_score) /\ Truthy(data.training_duration_min)
    THEN [metric EXCEPT !.training_load =
              Some(Val(data.rpe_score) * Val(data.training_duration_min))]
    ELSE metric

\* the UPDATE a flush emits sets the columns whose value differs from the one
\* the session loaded; the other columns keep what the table holds
Flushed(stored, loaded, metric) ==
    [f \in DOMAIN metric |->
        IF metric[f] # loaded[f] THEN metric[f] ELSE stored[f]]

StoredRow(table, id) == CHOOSE r \in table : r.id = id

\* the table as this request's queries see it, the row written so far included
TableWith(table, existing, metric) ==
    IF IsNone(existing) THEN table \cup {metric}
    ELSE LET stored == StoredRow(table, metric.id)
         IN  (table \ {stored}) \cup {Flushed(stored, Val(existing), metric)}

Visible(table, existing, metric) ==
    IF SessionAutoflush THEN TableWith(table, existing, metric) ELSE table

RECURSIVE SumInt(_, _)
SumInt(rows, field) ==
    IF rows = {} THEN 0
    ELSE LET r == CHOOSE x \in rows : TRUE
         IN  Val(r[field]) + SumInt(rows \ {r}, field)

RECURSIVE SumR(_, _)
SumR(rows, field) ==
    IF rows = {} THEN I(0)
    ELSE LET r == CHOOSE x \in rows : TRUE
         IN  RAdd(Val(r[field]), SumR(rows \ {r}, field))

\* func.avg over an Integer column: None when no row qualifies
AvgInt(rows, field) ==
    IF rows = {} THEN None ELSE Some(R(SumInt(rows, field), Cardinality(rows)))

\* func.avg over a Float column
AvgR(rows, field) ==
    IF rows = {} THEN None
    ELSE Some(RDiv(SumR(rows, field), I(Cardinality(rows))))

WindowInclusiveExclusive(table, user_id, from, to) ==
    {r \in table : r.user_id = user_id /\ r.date > from /\ r.date <= to}

\* user_id == ..., date >= from, date <= to
Window(table, user_id, from, to) ==
    {r \in table : r.user_id = user_id /\ r.date >= from /\ r.date <= to}

\* the acute_loads and chronic_loads queries
LoadAvg(table, user_id, from, to) ==
    AvgInt({r \in Window(table, user_id, from, to) : ~IsNone(r.training_load)},
           "training_load")

\* round(acute_loads / chronic_loads, 2) if acute_loads else 0
AcwrOf(acute_loads, chronic_loads) ==
    IF TruthyR(acute_loads)
    THEN Some(RoundTo(RDiv(Val(acute_loads), Val(chronic_loads)), 100))
    ELSE Some(I(0))

\* lines 71-96: acute_load, chronic_load and, when chronic > 0, acwr
WithLoads(metric, visible, data) ==
    LET seven_days_ago == data.date - AcuteDays
        twentyeight_days_ago == data.date - ChronicDays
        acute_loads == LoadAvg(visible, metric.user_id, seven_days_ago, data.date)
        chronic_loads ==
            LoadAvg(visible, metric.user_id, twentyeight_days_ago, data.date)
        loaded == [metric EXCEPT !.acute_load = acute_loads,
                                 !.chronic_load = chronic_loads]
    IN  IF TruthyR(chronic_loads) /\ RLt(I(0), Val(chronic_loads))
        THEN [loaded EXCEPT !.acwr = AcwrOf(acute_loads, chronic_loads)]
        ELSE loaded

\* lines 98-118: metric.recovery_score is assigned when sleep_hours and
\* resting_hr are given.  It is an attribute of the Python object only: has
\* tells whether the object carries it
RecoveryAttribute(metric, visible, data) ==
    IF TruthyR(data.sleep_hours) /\ Truthy(data.resting_hr)
    THEN LET avg_hr ==
                 AvgInt({r \in visible :
                            /\ r.user_id = metric.user_id
                            /\ r.date >= data.date - AcuteDays
                            /\ r.date < data.date
                            /\ ~IsNone(r.resting_hr)}, "resting_hr")
             baseline_hr == IF TruthyR(avg_hr) THEN Val(avg_hr)
                            ELSE I(Val(data.resting_hr))
             recovery ==
                 calculate_recovery_score(
                     [sleep_hours |-> Val(data.sleep_hours),
                      resting_hr |-> Val(data.resting_hr),
                      baseline_resting_hr |-> Trunc(baseline_hr),
                      hrv_ms |-> IF TruthyR(data.hrv_score)
                                 THEN Some(Trunc(Val(data.hrv_score)))
                                 ELSE None,
                      baseline_hrv |-> None,
                      muscle_soreness |-> data.muscle_soreness,
                      fatigue_level |-> data.fatigue_level,
                      stress_level |-> data.stress_level])
         IN  [has |-> TRUE, value |-> recovery.value]
    ELSE [has |-> FALSE, value |-> 0]

\* lines 120-136: readiness_score when a recovery score and both loads exist
WithReadiness(metric, recovery_score, visible, data) ==
    IF recovery_score # 0 /\ ~IsNone(metric.acute_load)
       /\ ~IsNone(metric.chronic_load)
    THEN LET avg ==
                 AvgR({r \in visible :
                          /\ r.user_id = metric.user_id
                          /\ r.date >= data.date - AcuteDays
                          /\ ~IsNone(r.sleep_hours)}, "sleep_hours")
             avg_sleep == IF TruthyR(avg) THEN Val(avg) ELSE R(75, 10)
             readiness ==
                 calculate_readiness_score(
                     [recovery_score |-> recovery_score,
                      training_load_7day |->
                          IF TruthyR(metric.acute_load)
                          THEN Val(metric.acute_load) ELSE I(0),
                      training_load_28day |->
                          IF TruthyR(metric.chronic_load)
                          THEN Val(metric.chronic_load) ELSE I(1),
                      sleep_hours |-> IF TruthyR(data.sleep_hours)
                                      THEN Val(data.sleep_hours) ELSE I(7),
                      avg_sleep_hours |-> avg_sleep])
         IN  [metric EXCEPT !.readiness_score = Some(readiness.value)]
    ELSE metric

\* lines 53-138: the row log_athlete_metrics commits, or the AttributeError
\* line 121 raises when line 118 did not assign metric.recovery_score
LoggedMetric(table, user_id, data, existing) ==
    LET started == IF IsNone(existing) THEN NewMetric(table, user_id, data)
                   ELSE UpdateFromData(Val(existing), data)
        loaded == WithTrainingLoad(started, data)
        with_loads == WithLoads(loaded, Visible(table, existing, loaded), data)
        recovery ==
            RecoveryAttribute(with_loads, Visible(table, existing, with_loads), data)
    IN  IF recovery.has
        THEN Returned(WithReadiness(with_loads, recovery.value,
                                    Visible(table, existing, with_loads), data))
        ELSE AttributeError

----------------------------------------------------------------------------
(* GET /performance/summary (get_performance_summary)                      *)

\* days: int = 28
SummaryDays == 28

\* order_by(AthleteMetric.date): every order of the rows that is sorted by
\* date (rows of one date come in any order)
RECURSIVE OrderedByDate(_)
OrderedByDate(rows) ==
    IF rows = {} THEN {<<>>}
    ELSE LET firsts == {r \in rows : \A x \in rows : r.date <= x.date}
         IN  UNION {{<<r>> \o t : t \in OrderedByDate(rows \ {r})} : r \in firsts}

\* value or 0
OrZero(x) == IF Truthy(x) THEN Val(x) ELSE 0

RECURSIVE SeqSum(_)
SeqSum(s) == IF s = <<>> THEN 0 ELSE Head(s) + SeqSum(Tail(s))

\* lines 314-322
AcwrStatus(current_acwr) ==
    IF IsNone(current_acwr) THEN "unknown"
    ELSE IF RLe(R(8, 10), Val(current_acwr)) /\ RLe(Val(current_acwr), R(13, 10))
         THEN "optimal"
    ELSE IF RLt(Val(current_acwr), R(8, 10)) THEN "undertrained"
    ELSE "high_injury_risk"

\* lines 324-337
Trend(ms) ==
    LET mid_point == Len(ms) \div 2
        readiness == [i \in DOMAIN ms |-> OrZero(ms[i].readiness_score)]
        first_half_readiness == R(SeqSum(SubSeq(readiness, 1, mid_point)), mid_point)
        second_half_readiness ==
            R(SeqSum(SubSeq(readiness, mid_point + 1, Len(ms))), Len(ms) - mid_point)
    IN  IF mid_point > 0
        THEN IF RLt(RAdd(first_half_readiness, I(5)), second_half_readiness)
             THEN "improving"
             ELSE IF RLt(second_half_readiness, RSub(first_half_readiness, I(5)))
                  THEN "declining"
                  ELSE "stable"
        ELSE "insufficient_data"

EmptySummary(user_id, days) ==
    [user_id |-> user_id, period_days |-> days, total_training_days |-> 0,
     avg_training_load |-> I(0), avg_recovery_score |-> I(0),
     avg_readiness_score |-> I(0), avg_sleep_hours |-> I(0),
     latest |-> None, current_acwr |-> None, acwr_status |-> "unknown",
     trend |-> "insufficient_data"]

\* the response for the rows ms of the period, ordered by date; latest is the
\* id of the row current_acwr is read from
Summary(user_id, days, ms) ==
    LET training_days == Cardinality({i \in DOMAIN ms : Truthy(ms[i].training_load)})
        avg_load == R(SeqSum([i \in DOMAIN ms |-> OrZero(ms[i].training_load)]), Len(ms))
        avg_recovery ==
            R(SeqSum([i \in DOMAIN ms |-> OrZero(ms[i].recovery_score)]), Len(ms))
        avg_readiness ==
            R(SeqSum([i \in DOMAIN ms |-> OrZero(ms[i].readiness_score)]), Len(ms))
        sleep_data == SelectSeq([i \in DOMAIN ms |-> ms[i].sleep_hours], TruthyR)
        avg_sleep == IF sleep_data # <<>>
                     THEN RDiv(RSum([i \in DOMAIN sleep_data |-> Val(sleep_data[i])]),
                               I(Len(sleep_data)))
                     ELSE I(0)
        latest_metric == ms[Len(ms)]
        current_acwr == latest_metric.acwr
    IN  [user_id |-> user_id, period_days |-> days,
         total_training_days |-> training_days,
         avg_training_load |-> RoundTo(avg_load, 10),
         avg_recovery_score |-> RoundTo(avg_recovery, 10),
         avg_readiness_score |-> RoundTo(avg_readiness, 10),
         avg_sleep_hours |-> RoundTo(avg_sleep, 100),
         latest |-> Some(latest_metric.id),
         current_acwr |-> current_acwr,
         acwr_status |-> AcwrStatus(current_acwr),
         trend |-> Trend(ms)]

\* the object carries the attribute: a loaded row has its columns only
HasAttribute(m, name) == name \in DOMAIN m

\* lines 283-349: the empty response, the AttributeError of line 305 on a
\* row without recovery_score, or the summary
get_performance_summary(user_id, days, ms) ==
    IF ms = <<>> THEN Returned(EmptySummary(user_id, days))
    ELSE IF \E i \in DOMAIN ms : ~HasAttribute(ms[i], "recovery_score")
         THEN AttributeError
         ELSE Returned(Summary(user_id, days, ms))

----------------------------------------------------------------------------
(* The pure functions under call: SpecScore                                *)

NextScore == CallRecovery \/ CallReadiness

SpecScore == InitScore /\ [][NextScore]_vars

----------------------------------------------------------------------------
(* app/api/v1/deficit.py: calculate_daily_deficit, under SpecDeficit       *)

BmrOtherAsFemale(weight_kg, height_cm, age, gender) ==
    LET BySex(base_bmr) ==
            IF gender = "male" THEN RAdd(base_bmr, I(5))
            ELSE RSub(base_bmr, I(161))
    IN  BySex(RSub(RAdd(RMul(I(10), weight_kg), RMul(R(625, 100), height_cm)),
                   I(5 * age)))

\* calculate_bmr (Mifflin-St Jeor)
calculate_bmr(weight_kg, height_cm, age, gender) ==
    LET BySex(base_bmr) ==
            IF gender = "male" THEN RAdd(base_bmr, I(5))
            ELSE IF gender = "female" THEN RSub(base_bmr, I(161))
            ELSE RSub(base_bmr, I(78))
    IN  BySex(RSub(RAdd(RMul(I(10), weight_kg), RMul(R(625, 100), height_cm)),
                   I(5 * age)))

\* multipliers.get(activity_level, 1.55)
get_activity_multiplier(activity_level) ==
    CASE activity_level = "sedentary" -> R(12, 10)
      [] activity_level = "light" -> R(1375, 1000)
      [] activity_level = "moderate" -> R(155, 100)
      [] activity_level = "active" -> R(1725, 1000)
      [] activity_level = "very_active" -> R(19, 10)
      [] OTHER -> R(155, 100)

\* what the doubles 1.2 - 1 and 1.9 - 1 fall short of 0.2 and 0.9 by, drawn
\* large: the true shortfall is below 1e-15
FloatShortfall == R(1, 100000)

\* activity_mult - 1 in double arithmetic: 0.375, 0.55 and 0.725 multiply as
\* the exact fractions do, 1.2 - 1 = 0.19999999999999996 and
\* 1.9 - 1 = 0.8999999999999999 do not
MultiplierMinusOne(activity_mult) ==
    IF activity_mult \in {R(12, 10), R(19, 10)}
    THEN RSub(RSub(activity_mult, I(1)), FloatShortfall)
    ELSE RSub(activity_mult, I(1))

\* bmr = 1800  # Default fallback
DefaultBmr == 1800

\* lines 104-113
BmrOf(profile, today) ==
    IF ~IsNone(profile) /\ TruthyR(Val(profile).bmr)
    THEN Trunc(Val(Val(profile).bmr))
    ELSE IF /\ ~IsNone(profile)
            /\ TruthyR(Val(profile).current_weight)
            /\ TruthyR(Val(profile).height)
            /\ ~IsNone(Val(profile).birth_date)
            /\ ~IsNone(Val(profile).gender)
         THEN LET p == Val(profile)
                  age == (today - Val(p.birth_date)) \div 365
              IN  Trunc(calculate_bmr(Val(p.current_weight), Val(p.height),
                                      age, Val(p.gender)))
         ELSE DefaultBmr

DeficitStatusInclusive(net_balance) ==
    IF net_balance <= -100 THEN "deficit"
    ELSE IF net_balance >= 100 THEN "surplus"
    ELSE "maintenance"

\* lines 162-168
DeficitStatus(net_balance) ==
    IF net_balance < -100 THEN "deficit"
    ELSE IF net_balance > 100 THEN "surplus"
    ELSE "maintenance"

OnTrackBelow200(calories_consumed, calorie_goal) ==
    IF Truthy(calorie_goal)
    THEN Abs(calories_consumed - Val(calorie_goal)) < 200
    ELSE TRUE

\* lines 170-173: within 200 cal of the goal, both ends included
OnTrack(calories_consumed, calorie_goal) ==
    IF Truthy(calorie_goal)
    THEN Abs(calories_consumed - Val(calorie_goal)) <= 200
    ELSE TRUE

HoursPerDay == 24

\* the rows of one user whose timestamp lies in [day_start, day_end)
OfDay(rows, user_id, field, target_date) ==
    LET day_start == HoursPerDay * target_date
        day_end == HoursPerDay * (target_date + 1)
    IN  SelectSeq(rows, LAMBDA r : /\ r.user_id = user_id
                                   /\ r[field] >= day_start
                                   /\ r[field] < day_end)

\* lines 97-193; the macro sums of the response are left out
calculate_daily_deficit(profile, foods, sessions, user_id, target_date, today) ==
    LET Balance(bmr) ==
        LET activity_level == IF ~IsNone(profile) THEN Val(profile).activity_level
                              ELSE "moderate"
            activity_mult == get_activity_multiplier(activity_level)
            activity_calories == Trunc(RMul(I(bmr), MultiplierMinusOne(activity_mult)))
            food_logs == OfDay(foods, user_id, "logged_at", target_date)
            calories_consumed == SeqSum([i \in DOMAIN food_logs |-> food_logs[i].calories])
            workouts == OfDay(sessions, user_id, "start_time", target_date)
            workout_calories ==
                SeqSum([i \in DOMAIN workouts |-> OrZero(workouts[i].calories_burned)])
            total_out == bmr + activity_calories + workout_calories
            net_balance == calories_consumed - total_out
            calorie_goal == IF ~IsNone(profile) THEN Val(profile).daily_calorie_goal
                            ELSE None
            tdee == bmr + activity_calories
            target_deficit == tdee - Val(calorie_goal)
            actual_deficit == -net_balance
        IN  [date |-> target_date,
             calories_consumed |-> calories_consumed,
             meals_logged |-> Len(food_logs),
             bmr |-> bmr,
             activity_calories |-> activity_calories,
             workout_calories |-> workout_calories,
             total_calories_out |-> total_out,
             net_balance |-> net_balance,
             calorie_goal |-> calorie_goal,
             target_deficit |-> IF Truthy(calorie_goal) THEN Some(target_deficit)
                                ELSE None,
             actual_vs_target |-> IF Truthy(calorie_goal)
                                  THEN Some(actual_deficit - target_deficit)
                                  ELSE None,
             status |-> DeficitStatus(net_balance),
             on_track |-> OnTrack(calories_consumed, calorie_goal),
             deficit_percentage |->
                 IF net_balance < 0
                 THEN Some(RoundTo(RMul(RDiv(I(Abs(net_balance)), I(total_out)),
                                        I(100)), 10))
                 ELSE None]
    IN  Balance(BmrOf(profile, today))

\* the day the deficit is asked for, and the day it is asked on
TargetDate == 1

DeficitToday == 11000

ActivityLevels ==
    {"sedentary", "light", "moderate", "active", "very_active", "unknown"}

\* stored bmr absent, zero or set; body measurements absent or complete; the
\* goal absent or one the engine stores, which is never below 1200
Profiles ==
    {None} \cup
    {Some([bmr |-> b, current_weight |-> m[1], height |-> m[2],
           birth_date |-> m[3], gender |-> m[4],
           activity_level |-> a, daily_calorie_goal |-> g]) :
        b \in {None, Some(I(0)), Some(R(40001, 20))},
        m \in {<<None, None, None, None>>,
               <<Some(I(70)), Some(I(175)), Some(0), Some("male")>>,
               <<Some(I(60)), Some(R(3301, 20)), Some(3650), Some("female")>>},
        a \in ActivityLevels,
        g \in {None, Some(1200), Some(2490)}}

FoodLog(user_id, logged_at, calories) ==
    [user_id |-> user_id, logged_at |-> logged_at, calories |-> calories]

\* rows the day's query must pass over: the last hour of the day before, the
\* first of the day after, another user's meal
OtherFoodLogs ==
    <<FoodLog("u1", HoursPerDay * TargetDate - 1, 400),
      FoodLog("u1", HoursPerDay * (TargetDate + 1), 500),
      FoodLog("u2", HoursPerDay * TargetDate + 12, 600)>>

MaxMeals == 2

\* what the user ate on the day; with DefaultBmr and "moderate" the day
\* burns 2790, and the sums 2689, 2690, 2890, 2891 sit on the thresholds
MealCalories == {0, 689, 690, 700, 890, 891, 2000}

DayMeals ==
    {<<>>} \cup
    UNION {[1..n -> MealCalories] : n \in 1..MaxMeals}

FoodLogTables ==
    {OtherFoodLogs \o [i \in DOMAIN meals |->
                          FoodLog("u1", HoursPerDay * TargetDate + i - 1, meals[i])] :
        meals \in DayMeals}

Workout(user_id, start_time, calories_burned) ==
    [user_id |-> user_id, start_time |-> start_time,
     calories_burned |-> calories_burned]

WorkoutTables ==
    {<<>>,
     <<Workout("u2", HoursPerDay * TargetDate, Some(250))>>,
     <<Workout("u1", HoursPerDay * TargetDate + 23, Some(300)),
       Workout("u1", HoursPerDay * TargetDate + 7, None)>>}

CallDailyDeficit ==
    /\ call = NoCall
    /\ \E profile \in Profiles, food \in FoodLogTables, workouts \in WorkoutTables :
          call' = [fn |-> "calculate_daily_deficit",
                   args |-> [profile |-> profile, food_logs |-> food,
                             workouts |-> workouts],
                   result |-> calculate_daily_deficit(profile, food, workouts, "u1",
                                                      TargetDate, DeficitToday)]
    /\ UNCHANGED <<metrics, requests, calls, summary, clock, earlier, account>>

\* for i in range(7)
WeekDays == 7

\* 7700 calories = ~1 kg of body weight
KcalPerKg == 7700

\* lines 225-276
get_weekly_deficit(profile, foods, sessions, user_id, today) ==
    LET week_start == today - 6
        Week(day_data) ==
        LET daily_data == [i \in 1..WeekDays |->
                              [date |-> week_start + (i - 1),
                               calories_in |-> day_data[i].calories_consumed,
                               calories_out |-> day_data[i].total_calories_out,
                               net_balance |-> day_data[i].net_balance,
                               status |-> day_data[i].status]]
            total_in == SeqSum([i \in 1..WeekDays |-> day_data[i].calories_consumed])
            total_out == SeqSum([i \in 1..WeekDays |-> day_data[i].total_calories_out])
            days_deficit == Cardinality({i \in 1..WeekDays : day_data[i].net_balance < 0})
            days_surplus == Cardinality({i \in 1..WeekDays : day_data[i].net_balance > 0})
            total_net == total_in - total_out
            avg_daily == total_net \div 7
            projected_change == RoundTo(RDiv(I(total_net), I(KcalPerKg)), 100)
        IN  [week_start |-> week_start,
             week_end |-> today,
             total_calories_in |-> total_in,
             total_calories_out |-> total_out,
             total_net_balance |-> total_net,
             avg_daily_deficit |-> avg_daily,
             days_in_deficit |-> days_deficit,
             days_in_surplus |-> days_surplus,
             projected_weight_change_kg |-> projected_change,
             daily_breakdown |-> daily_data]
    IN  Week([i \in 1..WeekDays |->
                 calculate_daily_deficit(profile, foods, sessions, user_id,
                                         week_start + (i - 1), today)])

\* a profile with its weights and nothing else but a stored bmr
WeightProfile(bmr, current_weight, target_weight) ==
    Some([bmr |-> bmr, current_weight |-> current_weight,
          target_weight |-> target_weight,
          height |-> None, birth_date |-> None, gender |-> None,
          activity_level |-> "moderate", daily_calorie_goal |-> None])

\* the profiles of the weekly summary: absent, without and with a stored bmr
WeekProfiles ==
    {None, WeightProfile(None, None, None),
     WeightProfile(Some(R(40001, 20)), Some(I(70)), Some(I(65)))}

\* what the user ate on one day of the week; with DefaultBmr and "moderate"
\* a day burns 2790: seven days of 1690 make -7700, seven of 2790 make 0
WeekDayMeals == {<<>>, <<1690>>, <<790, 2000>>}

\* rows the week's queries must pass over: the day before the week, the day
\* after today, another user's meal
OtherWeekLogs ==
    <<FoodLog("u1", HoursPerDay * (DeficitToday - WeekDays) + 12, 400),
      FoodLog("u1", HoursPerDay * (DeficitToday + 1), 500),
      FoodLog("u2", HoursPerDay * DeficitToday + 12, 600)>>

RECURSIVE Flatten(_)
Flatten(ss) == IF ss = <<>> THEN <<>> ELSE Head(ss) \o Flatten(Tail(ss))

MaxOddDays == 1

\* weeks of one usual day, with at most MaxOddDays days unlike it
WeekMeals ==
    {meals \in [1..WeekDays -> WeekDayMeals] :
        \E usual \in WeekDayMeals :
            Cardinality({i \in 1..WeekDays : meals[i] # usual}) <= MaxOddDays}

WeekFoodLogTables ==
    {OtherWeekLogs \o
     Flatten([i \in 1..WeekDays |->
                [k \in DOMAIN meals[i] |->
                    FoodLog("u1", HoursPerDay * (DeficitToday - WeekDays + i) + k,
                            meals[i][k])]]) :
        meals \in WeekMeals}

WeekWorkoutTables ==
    {<<Workout("u1", HoursPerDay * (DeficitToday - WeekDays), Some(250))>>,
     <<Workout("u1", HoursPerDay * (DeficitToday - 3) + 18, Some(310))>>}

CallWeeklyDeficit ==
    /\ call = NoCall
    /\ \E profile \in WeekProfiles, food \in WeekFoodLogTables,
          workouts \in WeekWorkoutTables :
          call' = [fn |-> "get_weekly_deficit",
                   args |-> [profile |-> profile, food_logs |-> food,
                             workouts |-> workouts],
                   result |-> get_weekly_deficit(profile, food, workouts, "u1",
                                                 DeficitToday)]
    /\ UNCHANGED <<metrics, requests, calls, summary, clock, earlier, account>>

DaysToTargetUnguarded(current_weight, target_weight, avg_daily_deficit) ==
    IF TruthyR(current_weight) /\ TruthyR(target_weight)
    THEN LET weight_diff == RSub(Val(current_weight), Val(target_weight))
             cal_needed == RMul(weight_diff, I(KcalPerKg))
         IN  IF RIsZero(avg_daily_deficit) THEN ZeroDivisionError
             ELSE LET q == RDiv(cal_needed, avg_daily_deficit)
                  IN  Returned(Some(Trunc(R(Abs(q.n), q.d))))
    ELSE Returned(None)

\* lines 347-352: int(abs(cal_needed / avg_daily_deficit)) behind its guard
DaysToTarget(current_weight, target_weight, avg_daily_deficit) ==
    IF /\ TruthyR(current_weight)
       /\ TruthyR(target_weight)
       /\ ~RIsZero(avg_daily_deficit)
    THEN LET weight_diff == RSub(Val(current_weight), Val(target_weight))
             cal_needed == RMul(weight_diff, I(KcalPerKg))
         IN  IF RIsZero(avg_daily_deficit) THEN ZeroDivisionError
             ELSE LET q == RDiv(cal_needed, avg_daily_deficit)
                  IN  Returned(Some(Trunc(R(Abs(q.n), q.d))))
    ELSE Returned(None)

\* lines 333-345
Projections(current_weight, avg_daily_deficit, weeks) ==
    IF TruthyR(current_weight)
    THEN [week \in 1..weeks |->
            LET weekly_deficit == RMul(avg_daily_deficit, I(7))
                weight_change == RDiv(weekly_deficit, I(KcalPerKg))
                projected_weight == RAdd(Val(current_weight),
                                         RMul(weight_change, I(week)))
            IN  [week |-> week,
                 projected_weight |-> RoundTo(projected_weight, 10),
                 projected_change |-> RoundTo(RMul(weight_change, I(week)), 100)]]
    ELSE <<>>

\* lines 307-362
get_weight_projection(weeks, profile, foods, sessions, user_id, today) ==
    LET current_weight == IF ~IsNone(profile) THEN Val(profile).current_weight
                          ELSE None
        target_weight == IF ~IsNone(profile) THEN Val(profile).target_weight
                         ELSE None
        total_deficit ==
            SeqSum([i \in 1..WeekDays |->
                       calculate_daily_deficit(profile, foods, sessions, user_id,
                                               today - (i - 1), today).net_balance])
        Projected(avg_daily_deficit) ==
        LET days_to_target == DaysToTarget(current_weight, target_weight,
                                           avg_daily_deficit)
        IN  IF days_to_target.raises THEN ZeroDivisionError
            ELSE Returned(
                   [current_weight |-> current_weight,
                    target_weight |-> target_weight,
                    avg_daily_deficit |-> RoundHalfEven(avg_daily_deficit),
                    avg_weekly_deficit |->
                        RoundHalfEven(RMul(avg_daily_deficit, I(7))),
                    projected_weekly_change_kg |->
                        RoundTo(RDiv(RMul(avg_daily_deficit, I(7)), I(KcalPerKg)), 100),
                    projections |-> Projections(current_weight, avg_daily_deficit,
                                                weeks),
                    estimated_days_to_target |-> days_to_target.value])
    IN  Projected(R(total_deficit, 7))

\* the profiles of the projection: the weights absent, zero (PUT /profile
\* takes any float) or set
ProjectionProfiles ==
    {None} \cup
    {WeightProfile(None, cw, tw) :
        cw \in {None, Some(I(0)), Some(I(70))},
        tw \in {None, Some(I(0)), Some(I(65)), Some(I(70)), Some(R(151, 2))}}

\* weeks: int = 4
ProjectionWeeks == {1, 4}

CallWeightProjection ==
    /\ call = NoCall
    /\ \E weeks \in ProjectionWeeks, profile \in ProjectionProfiles,
          food \in WeekFoodLogTables :
          call' = [fn |-> "get_weight_projection",
                   args |-> [weeks |-> weeks, profile |-> profile,
                             food_logs |-> food, workouts |-> <<>>],
                   result |-> get_weight_projection(weeks, profile, food, <<>>,
                                                    "u1", DeficitToday)]
    /\ UNCHANGED <<metrics, requests, calls, summary, clock, earlier, account>>

NextDeficit == CallDailyDeficit \/ CallWeeklyDeficit \/ CallWeightProjection

SpecDeficit == InitScore /\ [][NextDeficit]_vars

\* C10: the status is "deficit" exactly below -100, "surplus" exactly above
\* 100, and "maintenance" from -100 to 100 with both ends.
C10_StatusThresholds ==
    call.fn = "calculate_daily_deficit" =>
        LET net_balance == call.result.net_balance
            status == call.result.status
        IN  /\ net_balance < -100 <=> status = "deficit"
            /\ net_balance > 100 <=> status = "surplus"
            /\ (-100 <= net_balance /\ net_balance <= 100)
                  <=> status = "maintenance"

\* the four boundary balances -101, -100, 100, 101 are among the calls; this
\* one is -100
C10_Witness ==
    /\ call.fn = "calculate_daily_deficit"
    /\ call.result.net_balance = -100
    /\ call.result.status = "maintenance"

\* C11: total_calories_out is bmr + activity_calories + workout_calories and
\* net_balance is calories_consumed minus it; with a calorie goal,
\* target_deficit is (bmr + activity_calories) - goal, actual_vs_target is
\* (-net_balance) - target_deficit and on_track says the calories consumed
\* are within 200 of the goal; without one, both are null and on_track holds.
C11_DeficitArithmetic ==
    call.fn = "calculate_daily_deficit" =>
        LET r == call.result
            profile == call.args.profile
            goal == IF IsNone(profile) THEN None
                    ELSE Val(profile).daily_calorie_goal
        IN  /\ r.total_calories_out
                  = r.bmr + r.activity_calories + r.workout_calories
            /\ r.net_balance = r.calories_consumed - r.total_calories_out
            /\ r.calorie_goal = goal
            /\ ~IsNone(goal) =>
                  /\ r.target_deficit
                        = Some((r.bmr + r.activity_calories) - Val(goal))
                  /\ r.actual_vs_target
                        = Some((-r.net_balance) - Val(r.target_deficit))
                  /\ r.on_track
                        <=> /\ r.calories_consumed - Val(goal) <= 200
                            /\ Val(goal) - r.calories_consumed <= 200
            /\ IsNone(goal) =>
                  /\ r.target_deficit = None
                  /\ r.actual_vs_target = None
                  /\ r.on_track

\* a day with a workout and a goal of 2490 met from above by exactly 200
C11_Witness ==
    /\ call.fn = "calculate_daily_deficit"
    /\ call.result.calorie_goal = Some(2490)
    /\ call.result.calories_consumed = 2690
    /\ call.result.workout_calories = 300
    /\ call.result.on_track
    /\ call.result.target_deficit = Some(300)
    /\ call.result.actual_vs_target = Some(100)

\* C12: the week's total_net_balance is the sum of the seven net_balance
\* values of its daily_breakdown, and projected_weight_change_kg is that total
\* divided by 7700 and rounded to two decimals; a total of -7700 gives -1.00.
C12_WeeklyTotal ==
    call.fn = "get_weekly_deficit" =>
        LET r == call.result
            days == r.daily_breakdown
            hundredths == r.projected_weight_change_kg.n
                            * (100 \div r.projected_weight_change_kg.d)
        IN  /\ Len(days) = 7
            /\ r.total_net_balance
                  = SeqSum([i \in DOMAIN days |-> days[i].net_balance])
            /\ 100 % r.projected_weight_change_kg.d = 0
            /\ 2 * Abs(KcalPerKg * hundredths - 100 * r.total_net_balance)
                  <= KcalPerKg
            /\ r.total_net_balance = -7700
                  => r.projected_weight_change_kg = R(-1, 1)

\* a week of 1690 eaten against 2790 burnt each day
C12_Witness ==
    /\ call.fn = "get_weekly_deficit"
    /\ call.result.total_net_balance = -7700
    /\ call.result.days_in_deficit = 7
    /\ call.result.projected_weight_change_kg = R(-1, 1)

\* the sum of the seven daily balances a projection call was made on
ProjectionTotal ==
    SeqSum([i \in 1..WeekDays |->
               calculate_daily_deficit(call.args.profile, call.args.food_logs,
                                       call.args.workouts, "u1",
                                       DeficitToday - (i - 1),
                                       DeficitToday).net_balance])

\* both weights of the profile a projection call was made on are stored and
\* are weights, i.e. not zero
WeightsKnown ==
    /\ ~IsNone(call.args.profile)
    /\ TruthyR(Val(call.args.profile).current_weight)
    /\ TruthyR(Val(call.args.profile).target_weight)

\* C13: with current and target weight known, estimated_days_to_target is
\* null exactly when the seven days' average deficit is zero, and otherwise
\* the whole part of |(current - target) * 7700| / |average daily deficit|;
\* the projection never fails on a division by zero.
C13_DaysToTarget ==
    call.fn = "get_weight_projection" =>
        /\ ~call.result.raises
        /\ WeightsKnown =>
              LET days == call.result.value.estimated_days_to_target
                  total == ProjectionTotal
                  gap == RSub(Val(Val(call.args.profile).current_weight),
                              Val(Val(call.args.profile).target_weight))
                  \* |gap * 7700| / |total / 7| as one fraction
                  num == Abs(gap.n) * KcalPerKg * 7
                  den == gap.d * Abs(total)
              IN  /\ IsNone(days) <=> total = 0
                  /\ total # 0 =>
                        /\ Val(days) * den <= num
                        /\ num < (Val(days) + 1) * den

\* a week of balance: no estimate, and no fault
C13_Witness ==
    /\ call.fn = "get_weight_projection"
    /\ WeightsKnown
    /\ ProjectionTotal = 0
    /\ ~call.result.raises
    /\ IsNone(call.result.value.estimated_days_to_target)

\* 5 kg to lose at 1100 kcal a day: 35 days
C13_WitnessDays ==
    /\ call.fn = "get_weight_projection"
    /\ WeightsKnown
    /\ ProjectionTotal = -7700
    /\ call.result.value.estimated_days_to_target = Some(35)

----------------------------------------------------------------------------
(* The athlete endpoints as a state machine: SpecAthlete                   *)

MaxCalls == 3

Users == {"u1", "u2"}

\* the threads of the pool that runs the handlers
Workers == {1, 2}

\* 1 is seven days before 8 and twenty-eight before 29; 0 is one day more
Dates == {0, 1, 8, 29}

Todays == {29}

Idle == [pc |-> "idle"]

NoData(date) ==
    [f \in DataFields \cup {"date"} |-> IF f = "date" THEN date ELSE None]

\* a night of 8 hours and a resting heart rate of 60
Rested(date) ==
    [NoData(date) EXCEPT !.sleep_hours = Some(I(8)), !.resting_hr = Some(60)]

\* request bodies with sleep_hours and resting_hr: no load or an explicit
\* training_load on every date, and one session given by rpe and duration
\* (6 * 20 = 120); one body without sleep_hours and resting_hr
LoadInputs ==
    UNION {{ Rested(d),
             [Rested(d) EXCEPT !.training_load = Some(0)],
             [Rested(d) EXCEPT !.training_load = Some(60)] } : d \in Dates}
    \cup {[Rested(8) EXCEPT !.rpe_score = Some(6),
                            !.training_duration_min = Some(20)],
          [NoData(8) EXCEPT !.training_load = Some(60)]}

\* the requests made: every body for u1, one body for u2
LogRequests ==
    {<<"u1", data>> : data \in LoadInputs}
    \cup {<<"u2", [Rested(1) EXCEPT !.training_load = Some(60)]>>}

\* lines 47-51: the query for an entry of this user and date; .first().
\* A request is taken by the first idle thread of the pool.
LogCheck(w) ==
    /\ IsNone(summary)
    /\ requests[w].pc = "idle"
    /\ \A v \in Workers : v < w => requests[v].pc # "idle"
    /\ calls < MaxCalls
    /\ calls' = calls + 1
    /\ \E request \in LogRequests :
         LET user_id == request[1]
             data == request[2]
             same == {r \in metrics : r.user_id = user_id /\ r.date = data.date}
         IN  \E existing \in (IF same = {} THEN {None}
                                ELSE {Some(r) : r \in same}) :
                    requests' = [requests EXCEPT ![w] =
                                    [pc |-> "checked", user_id |-> user_id,
                                     data |-> data, existing |-> existing]]
    /\ UNCHANGED <<call, metrics, summary, clock, earlier, account>>

\* lines 53-140: update or insert, the derived columns, commit; a request
\* that raises commits nothing
LogWrite(w) ==
    /\ IsNone(summary)
    /\ requests[w].pc = "checked"
    /\ LET q == requests[w]
           logged == LoggedMetric(metrics, q.user_id, q.data, q.existing)
       IN  metrics' = IF logged.raises THEN metrics
                      ELSE TableWith(metrics, q.existing, logged.value)
    /\ requests' = [requests EXCEPT ![w] = Idle]
    /\ UNCHANGED <<call, calls, summary, clock, earlier, account>>

\* lines 270-349.  The summary reads and changes nothing, so a behaviour
\* ends with it: what could follow it follows the same state without it.
GetPerformanceSummary ==
    /\ IsNone(summary)
    /\ \E user_id \in Users, today \in Todays :
         LET start_date == today - SummaryDays
             period == {r \in metrics : r.user_id = user_id /\ r.date >= start_date}
         IN  \E ms \in OrderedByDate(period) :
                 summary' = Some(get_performance_summary(user_id, SummaryDays, ms))
    /\ UNCHANGED <<call, metrics, requests, calls, clock, earlier, account>>

InitAthlete ==
    /\ call = NoCall
    /\ metrics = {}
    /\ requests = [w \in Workers |-> Idle]
    /\ calls = 0
    /\ summary = None
    /\ clock = ClockDays[1]
    /\ earlier = NoCall
    /\ NoAccount

NextAthlete ==
    \/ \E w \in Workers : LogCheck(w)
    \/ \E w \in Workers : LogWrite(w)
    \/ GetPerformanceSummary

SpecAthlete == InitAthlete /\ [][NextAthlete]_vars

----------------------------------------------------------------------------
(* Properties of the stored training loads (SpecAthlete)                   *)

\* the mean of the non-null training loads of the user's rows dated from..to
MeanLoad(table, user_id, from, to) ==
    LET rows == {r \in table : /\ r.user_id = user_id
                                /\ from <= r.date /\ r.date <= to
                                /\ ~IsNone(r.training_load)}
    IN  IF rows = {} THEN None
        ELSE Some(R(SumInt(rows, "training_load"), Cardinality(rows)))

Positive(x) == ~IsNone(x) /\ RLt(I(0), Val(x))

\* C5: get_performance_summary answers with exactly one label for the acwr
\* it reports: "unknown" for null, "undertrained" below 0.8, "optimal" from
\* 0.8 to 1.3 with both ends, "high_injury_risk" above 1.3.
C5_SummaryLabel ==
    ~IsNone(summary) =>
        /\ ~Val(summary).raises
        /\ LET response == Val(summary).value
               acwr == response.current_acwr
           IN  response.acwr_status =
                   IF IsNone(acwr) THEN "unknown"
                   ELSE IF RLt(Val(acwr), R(8, 10)) THEN "undertrained"
                   ELSE IF RLe(Val(acwr), R(13, 10)) THEN "optimal"
                   ELSE "high_injury_risk"

\* C6: every stored row whose chronic_load is 0 or null has a null acwr.
C6_NoAcwrWithoutChronic ==
    \A r \in metrics : ~Positive(r.chronic_load) => IsNone(r.acwr)

\* C7: the acute_load, chronic_load and acwr stored on every row equal the
\* windowed means, and their ratio, recomputed from the current table.
C7_RowsRecomputed ==
    \A r \in metrics :
        LET acute == MeanLoad(metrics, r.user_id, r.date - 7, r.date)
            chronic == MeanLoad(metrics, r.user_id, r.date - 28, r.date)
        IN  /\ r.acute_load = acute
            /\ r.chronic_load = chronic
            /\ Positive(chronic) /\ ~IsNone(acute) =>
                  r.acwr = Some(RoundTo(RDiv(Val(acute), Val(chronic)), 100))

\* the row a request in flight writes: the one it loaded, or the new one
WrittenRow(q, before, after) ==
    IF IsNone(q.existing) THEN CHOOSE r \in after : r \notin before
    ELSE CHOOSE r \in after : r.id = Val(q.existing).id

\* the row the request loaded is still the stored one: no other request
\* has committed a change to it since the lookup
LoadedRowCurrent(q, table) ==
    IsNone(q.existing) \/ Val(q.existing) \in table

\* the request comes to write: it carries sleep_hours and resting_hr, without
\* which line 121 raises before db.commit()
ComesToWrite(q) == TruthyR(q.data.sleep_hours) /\ Truthy(q.data.resting_hr)

C9_OneRowPerUserDate ==
    \A r1, r2 \in metrics :
        (r1.user_id = r2.user_id /\ r1.date = r2.date) => r1 = r2

----------------------------------------------------------------------------
(* The nutrition goals of app/core/calculations.py                         *)

KeyError == [raises |-> TRUE, value |-> "KeyError"]

\* lines 72-79, today being date.today()
calculate_age(birth_date, today) ==
    LET age == today[1] - birth_date[1]
    IN  IF \/ today[2] < birth_date[2]
           \/ today[2] = birth_date[2] /\ today[3] < birth_date[3]
        THEN age - 1
        ELSE age

\* ACTIVITY_MULTIPLIERS.get(activity_level, 1.55) * bmr
calculate_tdee(bmr, activity_level) ==
    LET multiplier ==
            CASE activity_level = "sedentary" -> R(12, 10)
              [] activity_level = "light" -> R(1375, 1000)
              [] activity_level = "moderate" -> R(155, 100)
              [] activity_level = "active" -> R(1725, 1000)
              [] activity_level = "very_active" -> R(19, 10)
              [] OTHER -> R(155, 100)
    IN  RMul(bmr, multiplier)

\* GOAL_CALORIE_ADJUSTMENTS.get(goal_type, 0)
GoalCalorieAdjustment(goal_type) ==
    CASE goal_type = "lose_weight" -> -500
      [] goal_type = "maintain" -> 0
      [] goal_type = "gain_muscle" -> 300
      [] goal_type = "improve_health" -> 0
      [] OTHER -> 0

AdjustmentIfTruthy(goal_type, custom_adjustment) ==
    IF Truthy(custom_adjustment) THEN Val(custom_adjustment)
    ELSE GoalCalorieAdjustment(goal_type)

\* lines 151-154
Adjustment(goal_type, custom_adjustment) ==
    IF ~IsNone(custom_adjustment) THEN Val(custom_adjustment)
    ELSE GoalCalorieAdjustment(goal_type)

\* Ensure minimum safe calorie intake
MinDailyCalories == 1200

\* lines 135-160
calculate_daily_calories(tdee, goal_type, custom_adjustment) ==
    LET adjustment == Adjustment(goal_type, custom_adjustment)
        daily_calories == RAdd(tdee, I(adjustment))
        whole == Trunc(daily_calories)
    IN  IF whole >= MinDailyCalories THEN whole ELSE MinDailyCalories

MacroSplitUnbalanced(goal_type) ==
    CASE goal_type = "lose_weight" ->
             [protein |-> R(40, 100), carbs |-> R(30, 100), fat |-> R(30, 100)]
      [] goal_type = "gain_muscle" ->
             [protein |-> R(35, 100), carbs |-> R(45, 100), fat |-> R(25, 100)]
      [] goal_type = "improve_health" ->
             [protein |-> R(25, 100), carbs |-> R(45, 100), fat |-> R(30, 100)]
      [] OTHER ->
             [protein |-> R(30, 100), carbs |-> R(40, 100), fat |-> R(30, 100)]

\* macro_splits.get(goal_type, macro_splits[GoalType.MAINTAIN])
MacroSplit(goal_type) ==
    CASE goal_type = "lose_weight" ->
             [protein |-> R(40, 100), carbs |-> R(30, 100), fat |-> R(30, 100)]
      [] goal_type = "gain_muscle" ->
             [protein |-> R(35, 100), carbs |-> R(45, 100), fat |-> R(20, 100)]
      [] goal_type = "improve_health" ->
             [protein |-> R(25, 100), carbs |-> R(45, 100), fat |-> R(30, 100)]
      [] OTHER ->
             [protein |-> R(30, 100), carbs |-> R(40, 100), fat |-> R(30, 100)]

\* lines 195-203: grams of each macro before rounding
StandardGrams(daily_calories, goal_type) ==
    LET split == MacroSplit(goal_type)
        protein_calories == RMul(I(daily_calories), split.protein)
        carbs_calories == RMul(I(daily_calories), split.carbs)
        fat_calories == RMul(I(daily_calories), split.fat)
    IN  [protein |-> RDiv(protein_calories, I(4)),
         carbs |-> RDiv(carbs_calories, I(4)),
         fat |-> RDiv(fat_calories, I(9))]

\* lines 163-212
calculate_macros_standard(daily_calories, weight_kg, goal_type) ==
    LET split == MacroSplit(goal_type)
        grams == StandardGrams(daily_calories, goal_type)
    IN  [protein_grams |-> RoundTo(grams.protein, 10),
         protein_percentage |-> RoundTo(RMul(split.protein, I(100)), 10),
         carbs_grams |-> RoundTo(grams.carbs, 10),
         carbs_percentage |-> RoundTo(RMul(split.carbs, I(100)), 10),
         fat_grams |-> RoundTo(grams.fat, 10),
         fat_percentage |-> RoundTo(RMul(split.fat, I(100)), 10)]

\* lines 239-244
protein_per_kg ==
    [strength |-> [building |-> R(22, 10), cutting |-> R(24, 10),
                   maintenance |-> R(18, 10), competition |-> R(20, 10)],
     endurance |-> [building |-> R(14, 10), cutting |-> R(16, 10),
                    maintenance |-> R(12, 10), competition |-> R(14, 10)],
     mixed |-> [building |-> R(18, 10), cutting |-> R(20, 10),
                maintenance |-> R(16, 10), competition |-> R(18, 10)],
     power |-> [building |-> R(24, 10), cutting |-> R(26, 10),
                maintenance |-> R(20, 10), competition |-> R(22, 10)]]

\* lines 247-252
fat_per_kg ==
    [strength |-> R(80, 100), endurance |-> R(70, 100),
     mixed |-> R(75, 100), power |-> R(85, 100)]

CarbsGramsNoFloor(remaining_calories) == RDiv(remaining_calories, I(4))

\* max(remaining_calories / 4, 100)
CarbsGrams(remaining_calories) == RMax(RDiv(remaining_calories, I(4)), I(100))

ReducedFatNoFloor(available_for_fat, min_fat_grams) == RDiv(available_for_fat, I(9))

\* max(available_for_fat / 9, min_fat_grams * 0.8)
ReducedFat(available_for_fat, min_fat_grams) ==
    RMax(RDiv(available_for_fat, I(9)), RMul(min_fat_grams, R(8, 10)))

AthleteGramsFatKept(daily_calories, weight_kg, training_type, training_phase) ==
    LET protein_grams == RMul(weight_kg, protein_per_kg[training_type][training_phase])
        protein_calories == RMul(protein_grams, I(4))
        min_fat_grams == RMul(weight_kg, fat_per_kg[training_type])
        min_fat_calories == RMul(min_fat_grams, I(9))
        remaining_calories ==
            RSub(RSub(I(daily_calories), protein_calories), min_fat_calories)
    IN  [protein |-> protein_grams,
         carbs |-> CarbsGrams(remaining_calories),
         fat |-> min_fat_grams]

\* lines 254-276: grams of each macro before rounding, for a known training
\* type and phase
AthleteGrams(daily_calories, weight_kg, training_type, training_phase) ==
    LET protein_grams == RMul(weight_kg, protein_per_kg[training_type][training_phase])
        protein_calories == RMul(protein_grams, I(4))
        min_fat_grams == RMul(weight_kg, fat_per_kg[training_type])
        min_fat_calories == RMul(min_fat_grams, I(9))
        remaining_calories ==
            RSub(RSub(I(daily_calories), protein_calories), min_fat_calories)
        floored == RLt(RDiv(remaining_calories, I(4)), I(100))
        available_for_fat == RSub(RSub(I(daily_calories), protein_calories), I(400))
    IN  [protein |-> protein_grams,
         carbs |-> CarbsGrams(remaining_calories),
         fat |-> IF floored THEN ReducedFat(available_for_fat, min_fat_grams)
                 ELSE min_fat_grams]

\* lines 215-291; dict[key] on a missing key raises KeyError
calculate_macros_athlete(daily_calories, weight_kg, training_type, training_phase) ==
    IF training_type \notin DOMAIN protein_per_kg THEN KeyError
    ELSE IF training_phase \notin DOMAIN protein_per_kg[training_type] THEN KeyError
    ELSE
    LET Percentages(grams, protein_calories, carbs_calories, fat_calories, total_calories) ==
            IF RIsZero(total_calories) THEN ZeroDivisionError
            ELSE Returned(
                   [protein_grams |-> RoundTo(grams.protein, 10),
                    protein_percentage |->
                        RoundTo(RMul(RDiv(protein_calories, total_calories), I(100)), 10),
                    carbs_grams |-> RoundTo(grams.carbs, 10),
                    carbs_percentage |->
                        RoundTo(RMul(RDiv(carbs_calories, total_calories), I(100)), 10),
                    fat_grams |-> RoundTo(grams.fat, 10),
                    fat_percentage |->
                        RoundTo(RMul(RDiv(fat_calories, total_calories), I(100)), 10)])
        Totalled(grams, protein_calories, carbs_calories, fat_calories) ==
            Percentages(grams, protein_calories, carbs_calories, fat_calories,
                        RAdd(RAdd(protein_calories, carbs_calories), fat_calories))
        Actual(grams) ==
            Totalled(grams, RMul(grams.protein, I(4)), RMul(grams.carbs, I(4)),
                     RMul(grams.fat, I(9)))
    IN  Actual(AthleteGrams(daily_calories, weight_kg, training_type, training_phase))

\* lines 294-335
calculate_water_intake(weight_kg, activity_level, is_athlete) ==
    LET base_ml_per_kg ==
            CASE activity_level = "sedentary" -> 30
              [] activity_level = "light" -> 32
              [] activity_level = "moderate" -> 35
              [] activity_level = "active" -> 38
              [] activity_level = "very_active" -> 40
              [] OTHER -> 35
        athlete_bonus ==
            CASE activity_level = "sedentary" -> 300
              [] activity_level = "light" -> 500
              [] activity_level = "moderate" -> 700
              [] activity_level = "active" -> 900
              [] activity_level = "very_active" -> 1200
              [] OTHER -> 500
        base_intake == RMul(weight_kg, I(base_ml_per_kg))
    IN  Trunc(IF is_athlete THEN RAdd(base_intake, I(athlete_bonus))
              ELSE base_intake)

\* lines 338-402; today is what calculate_age reads from the system clock
calculate_all_nutrition_goals(weight_kg, height_cm, birth_date, gender, activity_level, goal_type, is_athlete, training_type, training_phase, today) ==
    LET age == calculate_age(birth_date, today)
        athlete == is_athlete /\ ~IsNone(training_type) /\ Val(training_type) # ""
        phase == IF ~IsNone(training_phase) /\ Val(training_phase) # ""
                 THEN Val(training_phase) ELSE "maintenance"
        water_ml == calculate_water_intake(weight_kg, activity_level, is_athlete)
        Goals(bmr, tdee, daily_calories, macros) ==
            IF macros.raises THEN macros
            ELSE Returned([bmr |-> RoundTo(bmr, 10),
                           tdee |-> RoundTo(tdee, 10),
                           daily_calories |-> daily_calories,
                           protein_grams |-> macros.value.protein_grams,
                           carbs_grams |-> macros.value.carbs_grams,
                           fat_grams |-> macros.value.fat_grams,
                           water_ml |-> water_ml])
        WithMacros(bmr, tdee, daily_calories) ==
            Goals(bmr, tdee, daily_calories,
                  IF athlete
                  THEN calculate_macros_athlete(daily_calories, weight_kg,
                                                Val(training_type), phase)
                  ELSE Returned(calculate_macros_standard(daily_calories, weight_kg,
                                                          goal_type)))
        WithCalories(bmr, tdee) ==
            WithMacros(bmr, tdee, calculate_daily_calories(tdee, goal_type, None))
        WithTdee(bmr) == WithCalories(bmr, calculate_tdee(bmr, activity_level))
    IN  WithTdee(calculate_bmr(weight_kg, height_cm, age, gender))

----------------------------------------------------------------------------
(* One call of a nutrition function: SpecNutrition                         *)

\* the members of ActivityLevel and a value that is none of them
EngineActivityLevels ==
    {"sedentary", "light", "moderate", "active", "very_active", "extreme"}

\* the members of GoalType and a value that is none of them
GoalTypes == {"lose_weight", "maintain", "gain_muscle", "improve_health", "recomp"}

\* the training types and phases of the signature and a value outside each
TrainingTypes == {"strength", "endurance", "mixed", "power", "crossfit"}

TrainingPhases == {"building", "cutting", "maintenance", "competition", "taper"}

Bmrs == {I(1500), R(6645, 4)}

\* lose_weight takes 2000 to 1500, 1700.5 to 1200 and 1700 and 1699.95 to
\* the minimum
Tdees ==
    {I(0), I(1200), R(33999, 20), I(1700), R(3401, 2), I(2000), R(27909, 10)}

CustomAdjustments == {None, Some(0), Some(-800), Some(-500), Some(250)}

\* strength at maintenance and 70 kg takes 504 kcal of protein and 504 of
\* fat: the carbohydrate floor is met from 1408 on
AthleteCalories == {1200, 1300, 1400, 1408, 1500, 2100, 2500, 3500}

Weights == {I(60), I(70), R(412, 5)}

CallTdee ==
    /\ call = NoCall
    /\ \E bmr \in Bmrs, activity_level \in EngineActivityLevels :
          call' = [fn |-> "calculate_tdee",
                   args |-> [bmr |-> bmr, activity_level |-> activity_level],
                   result |-> Returned(calculate_tdee(bmr, activity_level))]
    /\ UNCHANGED <<metrics, requests, calls, summary, clock, earlier, account>>

CallDailyCalories ==
    /\ call = NoCall
    /\ \E tdee \in Tdees, goal_type \in GoalTypes, custom \in CustomAdjustments :
          call' = [fn |-> "calculate_daily_calories",
                   args |-> [tdee |-> tdee, goal_type |-> goal_type,
                             custom_adjustment |-> custom],
                   result |-> Returned(calculate_daily_calories(tdee, goal_type,
                                                                custom))]
    /\ UNCHANGED <<metrics, requests, calls, summary, clock, earlier, account>>

CallMacrosStandard ==
    /\ call = NoCall
    /\ \E daily_calories \in {1200, 2000, 2790}, weight_kg \in Weights,
          goal_type \in GoalTypes :
          call' = [fn |-> "calculate_macros_standard",
                   args |-> [daily_calories |-> daily_calories,
                             weight_kg |-> weight_kg, goal_type |-> goal_type],
                   result |-> Returned(calculate_macros_standard(daily_calories,
                                                                 weight_kg,
                                                                 goal_type))]
    /\ UNCHANGED <<metrics, requests, calls, summary, clock, earlier, account>>

CallMacrosAthlete ==
    /\ call = NoCall
    /\ \E daily_calories \in AthleteCalories, weight_kg \in Weights,
          training_type \in TrainingTypes, training_phase \in TrainingPhases :
          call' = [fn |-> "calculate_macros_athlete",
                   args |-> [daily_calories |-> daily_calories,
                             weight_kg |-> weight_kg,
                             training_type |-> training_type,
                             training_phase |-> training_phase],
                   result |-> calculate_macros_athlete(daily_calories, weight_kg,
                                                       training_type,
                                                       training_phase)]
    /\ UNCHANGED <<metrics, requests, calls, summary, clock, earlier, account>>

CallWaterIntake ==
    /\ call = NoCall
    /\ \E weight_kg \in Weights, activity_level \in EngineActivityLevels,
          is_athlete \in BOOLEAN :
          call' = [fn |-> "calculate_water_intake",
                   args |-> [weight_kg |-> weight_kg,
                             activity_level |-> activity_level,
                             is_athlete |-> is_athlete],
                   result |-> Returned(calculate_water_intake(weight_kg,
                                                              activity_level,
                                                              is_athlete))]
    /\ UNCHANGED <<metrics, requests, calls, summary, clock, earlier, account>>

\* the arguments of calculate_all_nutrition_goals; the endpoints of user.py
\* pass no training_type and no training_phase
GoalArgs ==
    [weight_kg : {I(70), R(412, 5)},
     height_cm : {I(175)},
     birth_date : {Date(1990, 6, 15)},
     gender : {"male", "female", "other"},
     activity_level : {"sedentary", "moderate"},
     goal_type : {"lose_weight", "gain_muscle"},
     is_athlete : BOOLEAN,
     training_type : {None, Some("strength"), Some("crossfit")},
     training_phase : {None, Some("cutting")}]

AllNutritionGoals(a, today) ==
    calculate_all_nutrition_goals(a.weight_kg, a.height_cm, a.birth_date, a.gender,
                                  a.activity_level, a.goal_type, a.is_athlete,
                                  a.training_type, a.training_phase, today)

CallAllNutritionGoals ==
    /\ call = NoCall
    /\ \E a \in GoalArgs :
          call' = [fn |-> "calculate_all_nutrition_goals", args |-> a,
                   result |-> AllNutritionGoals(a, clock)]
    /\ UNCHANGED <<metrics, requests, calls, summary, clock, earlier, account>>

Heights == {I(175), R(3301, 20)}

Ages == {18, 34}

\* the members of Gender and a value that is none of them
Genders == {"male", "female", "other", "unstated"}

CallBmr ==
    /\ call = NoCall
    /\ \E weight_kg \in Weights, height_cm \in Heights, age \in Ages,
          gender \in Genders :
          call' = [fn |-> "calculate_bmr",
                   args |-> [weight_kg |-> weight_kg, height_cm |-> height_cm,
                             age |-> age, gender |-> gender],
                   result |-> Returned(calculate_bmr(weight_kg, height_cm, age,
                                                     gender))]
    /\ UNCHANGED <<metrics, requests, calls, summary, clock, earlier, account>>

\* a call is made on any day
InitNutrition ==
    /\ call = NoCall
    /\ metrics = {}
    /\ requests = <<>>
    /\ calls = 0
    /\ summary = None
    /\ clock \in {ClockDays[i] : i \in DOMAIN ClockDays}
    /\ earlier = NoCall
    /\ NoAccount

NextNutrition ==
    \/ CallBmr
    \/ CallTdee
    \/ CallDailyCalories
    \/ CallMacrosStandard
    \/ CallMacrosAthlete
    \/ CallWaterIntake
    \/ CallAllNutritionGoals

SpecNutrition == InitNutrition /\ [][NextNutrition]_vars

\* C14: calculate_daily_calories returns max(trunc(tdee + adjustment), 1200),
\* never less than 1200, the adjustment being custom_adjustment whenever one
\* is given, 0 included, and otherwise -500 for lose_weight, 0 for maintain,
\* +300 for gain_muscle and 0 for improve_health.
C14_CalorieFloor ==
    call.fn = "calculate_daily_calories" =>
        LET a == call.args
            table == [lose_weight |-> -500, maintain |-> 0,
                      gain_muscle |-> 300, improve_health |-> 0]
            adjustment == IF a.custom_adjustment # None
                          THEN Val(a.custom_adjustment)
                          ELSE IF a.goal_type \in DOMAIN table
                               THEN table[a.goal_type] ELSE 0
            sum == RAdd(a.tdee, I(adjustment))
            \* the whole part of sum, which is not negative here
            whole == sum.n \div sum.d
            result == call.result.value
        IN  /\ ~call.result.raises
            /\ result >= 1200
            /\ result = IF whole > 1200 THEN whole ELSE 1200

\* lose_weight with a custom adjustment of 0 keeps the 2000 of the tdee
C14_Witness ==
    /\ call.fn = "calculate_daily_calories"
    /\ call.args.goal_type = "lose_weight"
    /\ call.args.custom_adjustment = Some(0)
    /\ call.args.tdee = I(2000)
    /\ call.result.value = 2000

\* C15: calculate_tdee, calculate_daily_calories, calculate_macros_standard,
\* calculate_water_intake and calculate_macros_athlete all return a value,
\* whatever activity level, goal, training type and training phase they are
\* given, known or not.
C15_UnknownKeysDefault ==
    call.fn \in {"calculate_tdee", "calculate_daily_calories",
                 "calculate_macros_standard", "calculate_water_intake",
                 "calculate_macros_athlete"}
        => ~call.result.raises

\* C16: calculate_recovery_score and calculate_readiness_score return a value
\* for every numeric input, a baseline_hrv of 0, an avg_sleep_hours of 0 and
\* a 28-day load of 0 included.
C16_NoDivisionFault ==
    (IsRecoveryCall \/ IsReadinessCall) => ~call.result.raises

IsAthleteMacros ==
    /\ call.fn = "calculate_macros_athlete"
    /\ ~call.result.raises

\* weight_kg times the protein table's value, and times the fat table's
ProteinOf(a) == RMul(a.weight_kg, protein_per_kg[a.training_type][a.training_phase])

MinFatOf(a) == RMul(a.weight_kg, fat_per_kg[a.training_type])

\* C17: the protein of the athlete allocation is weight_kg times the table's
\* value whatever the calorie target, and its fat lies between 80% of
\* weight_kg times the fat minimum and that minimum, below it only when the
\* carbohydrates are at the 100 g floor (grams as returned, to one decimal).
C17_ProteinKeptFatBounded ==
    IsAthleteMacros =>
        LET a == call.args
            r == call.result.value
        IN  /\ r.protein_grams = RoundTo(ProteinOf(a), 10)
            /\ RLe(RoundTo(RMul(R(8, 10), MinFatOf(a)), 10), r.fat_grams)
            /\ RLe(r.fat_grams, RoundTo(MinFatOf(a), 10))
            /\ RLt(r.fat_grams, RoundTo(MinFatOf(a), 10))
                  => r.carbs_grams = I(100)

\* 1200 kcal for 70 kg of strength training: the protein stays at 126 g and
\* the fat stops at 80% of its 56 g
C17_Witness ==
    /\ IsAthleteMacros
    /\ call.args.daily_calories = 1200
    /\ call.args.weight_kg = I(70)
    /\ call.result.value.protein_grams = I(126)
    /\ call.result.value.fat_grams = R(448, 10)
    /\ call.result.value.carbs_grams = I(100)

\* C18: the athlete allocation returns at least 100 g of carbohydrates, and
\* with a calorie target of at least protein calories + minimum-fat calories
\* + 400 it returns (daily_calories - protein calories - minimum-fat
\* calories) / 4 (grams as returned, to one decimal).
C18_CarbsFloor ==
    IsAthleteMacros =>
        LET a == call.args
            r == call.result.value
            protein_calories == RMul(ProteinOf(a), I(4))
            min_fat_calories == RMul(MinFatOf(a), I(9))
            rest == RSub(RSub(I(a.daily_calories), protein_calories),
                         min_fat_calories)
        IN  /\ RLe(I(100), r.carbs_grams)
            /\ RLe(I(400), rest) => r.carbs_grams = RoundTo(RDiv(rest, I(4)), 10)

\* 1200 kcal leave 192 kcal after protein and minimum fat: 48 g of
\* carbohydrates, raised to 100
C18_Witness ==
    /\ IsAthleteMacros
    /\ call.args.daily_calories = 1200
    /\ call.args.weight_kg = I(70)
    /\ call.args.training_type = "strength"
    /\ call.args.training_phase = "maintenance"
    /\ call.result.value.carbs_grams = I(100)

\* the grams of a macro distribution
Grams(macros) ==
    <<macros.protein_grams, macros.carbs_grams, macros.fat_grams>>

\* C19: calculate_all_nutrition_goals returns the athlete per-kilogram
\* allocation (of some training type and phase) whenever is_athlete is true,
\* and the standard percentage split whenever it is false.
C19_StrategyByIsAthlete ==
    (call.fn = "calculate_all_nutrition_goals" /\ ~call.result.raises) =>
        LET a == call.args
            r == call.result.value
        IN  IF a.is_athlete
            THEN \E training_type \in DOMAIN protein_per_kg :
                   \E training_phase \in DOMAIN protein_per_kg[training_type] :
                      LET macros == calculate_macros_athlete(r.daily_calories,
                                                             a.weight_kg,
                                                             training_type,
                                                             training_phase)
                      IN  ~macros.raises /\ Grams(r) = Grams(macros.value)
            ELSE Grams(r) = Grams(calculate_macros_standard(r.daily_calories,
                                                            a.weight_kg,
                                                            a.goal_type))

----------------------------------------------------------------------------
(* Two calls of an engine function while the clock moves on: SpecClock     *)

\* a call made with only the arguments the endpoints of user.py pass, or
\* with a training type
ClockGoalArgs ==
    {a \in GoalArgs : /\ a.weight_kg = I(70)
                      /\ a.goal_type = "lose_weight"
                      /\ a.training_phase = None}

ClockRecoveryArgs ==
    {a \in RecoveryArgs : /\ a.sleep_hours = I(8)
                          /\ a.resting_hr \in {60, 64}
                          /\ a.hrv_ms \in {None, Some(80)}
                          /\ a.baseline_hrv \in {None, Some(80)}
                          /\ a.muscle_soreness = None
                          /\ a.fatigue_level = None
                          /\ a.stress_level = None}

\* the system date moves to a later day
Tick ==
    /\ \E i, j \in DOMAIN ClockDays :
          /\ clock = ClockDays[i]
          /\ i < j
          /\ clock' = ClockDays[j]
    /\ UNCHANGED <<call, metrics, requests, calls, summary, earlier, account>>

GoalsOnClock ==
    /\ earlier = NoCall
    /\ \E a \in ClockGoalArgs :
          call' = [fn |-> "calculate_all_nutrition_goals", args |-> a,
                   result |-> AllNutritionGoals(a, clock)]
    /\ earlier' = call
    /\ UNCHANGED <<metrics, requests, calls, summary, clock, account>>

RecoveryOnClock ==
    /\ earlier = NoCall
    /\ \E a \in ClockRecoveryArgs :
          call' = [fn |-> "calculate_recovery_score", args |-> a,
                   result |-> calculate_recovery_score(a)]
    /\ earlier' = call
    /\ UNCHANGED <<metrics, requests, calls, summary, clock, account>>

NextClock == Tick \/ GoalsOnClock \/ RecoveryOnClock

SpecClock == InitScore /\ [][NextClock]_vars

\* C20: two calls of an engine function with the same arguments return the
\* same result, whatever happened between them.
C20_Deterministic ==
    (call.fn # "none" /\ earlier.fn = call.fn /\ earlier.args = call.args)
        => earlier.result = call.result

----------------------------------------------------------------------------
(* Further properties of single calls (SpecNutrition, SpecScore)           *)

\* C22: for every weight, height and age the male result is 166 above the
\* female one, and the result for "other" is the midpoint of the two, 78
\* below 10 * weight + 6.25 * height - 5 * age.
C22_BmrSexes ==
    call.fn = "calculate_bmr" =>
        LET a == call.args
            bmr == call.result.value
            male == calculate_bmr(a.weight_kg, a.height_cm, a.age, "male")
            female == calculate_bmr(a.weight_kg, a.height_cm, a.age, "female")
            base == RSub(RAdd(RMul(I(10), a.weight_kg),
                              RMul(R(25, 4), a.height_cm)), I(5 * a.age))
        IN  /\ a.gender = "male" => RSub(bmr, female) = I(166)
            /\ a.gender = "female" => RSub(male, bmr) = I(166)
            /\ a.gender = "other" =>
                  /\ RMul(I(2), bmr) = RAdd(male, female)
                  /\ bmr = RSub(base, I(78))

\* 70 kg, 175 cm, 34 years, "other": 1545.75, between 1628.75 and 1462.75
C22_Witness ==
    /\ call.fn = "calculate_bmr"
    /\ call.args.gender = "other"
    /\ call.args.weight_kg = I(70)
    /\ call.args.height_cm = I(175)
    /\ call.args.age = 34
    /\ call.result.value = R(154575, 100)

\* C23: for every goal, and for the "maintain" split an unknown goal falls
\* back to, the three percentages of calculate_macros_standard sum to 100,
\* the grams before rounding are calories * percentage / 4 for protein and
\* carbohydrate and calories * percentage / 9 for fat, and so
\* 4 * protein + 4 * carbs + 9 * fat is the calorie target; the returned
\* grams are these rounded to one decimal.
C23_StandardSplit ==
    call.fn = "calculate_macros_standard" =>
        LET a == call.args
            r == call.result.value
            grams == StandardGrams(a.daily_calories, a.goal_type)
            share(percentage, per_gram) ==
                RDiv(RMul(I(a.daily_calories), RDiv(percentage, I(100))),
                     I(per_gram))
        IN  /\ RAdd(RAdd(r.protein_percentage, r.carbs_percentage),
                    r.fat_percentage) = I(100)
            /\ grams.protein = share(r.protein_percentage, 4)
            /\ grams.carbs = share(r.carbs_percentage, 4)
            /\ grams.fat = share(r.fat_percentage, 9)
            /\ RAdd(RAdd(RMul(I(4), grams.protein), RMul(I(4), grams.carbs)),
                    RMul(I(9), grams.fat)) = I(a.daily_calories)
            /\ r.protein_grams = RoundTo(grams.protein, 10)
            /\ r.carbs_grams = RoundTo(grams.carbs, 10)
            /\ r.fat_grams = RoundTo(grams.fat, 10)

\* 2000 kcal for an unknown goal: 30 / 40 / 30, 150 g, 200 g and 66.7 g
C23_Witness ==
    /\ call.fn = "calculate_macros_standard"
    /\ call.args.goal_type = "recomp"
    /\ call.args.daily_calories = 2000
    /\ call.result.value.protein_grams = I(150)
    /\ call.result.value.carbs_grams = I(200)
    /\ call.result.value.fat_grams = R(667, 10)
    /\ call.result.value.carbs_percentage = I(40)

HasSubjective(a) ==
    ~(IsNone(a.muscle_soreness) /\ IsNone(a.fatigue_level) /\ IsNone(a.stress_level))

\* the weights of the components of a call, summed before renormalization
TotalWeight(a) ==
    LET comps == Components(a)
    IN  RSum([i \in DOMAIN comps |-> comps[i][2]])

\* C25: hrv_ms without baseline_hrv enters as min(100, hrv_ms / 80 * 100)
\* with weight 0.10 (total 0.70 without subjective inputs, 0.90 with them);
\* hrv_ms with a (non-zero) baseline_hrv enters as the ratio score with
\* weight 0.20; without hrv_ms there is no HRV component (total 0.60 or
\* 0.80); the result is the weighted average over that total.
C25_HrvComponent ==
    (IsRecoveryCall /\ DivisorsNonZero) =>
        LET a == call.args
            hrv == HrvComponent(a.hrv_ms, a.baseline_hrv)
            rest == IF HasSubjective(a) THEN 4 ELSE 2
            comps == Components(a)
            n == Len(comps)
            total == TotalWeight(a)
            restWeight == IF HasSubjective(a) THEN R(80, 100) ELSE R(60, 100)
            weighted == RSum([i \in 1..n |-> RMul(comps[i][1], comps[i][2])])
        IN  /\ (~IsNone(a.hrv_ms) /\ IsNone(a.baseline_hrv)) =>
                  /\ hrv = << <<RMin(I(100), RDiv(I(Val(a.hrv_ms) * 100), I(80))),
                                R(1, 10)>> >>
                  /\ total = IF HasSubjective(a) THEN R(90, 100)
                                      ELSE R(70, 100)
            /\ (~IsNone(a.hrv_ms) /\ ~IsNone(a.baseline_hrv)) =>
                  /\ hrv = << <<HrvRatioScore(Val(a.hrv_ms), Val(a.baseline_hrv)),
                                R(2, 10)>> >>
                  /\ total = RAdd(restWeight, R(2, 10))
            /\ IsNone(a.hrv_ms) =>
                  /\ hrv = <<>>
                  /\ total = restWeight
            /\ n = (rest \div 2) + 1 + Len(hrv)
            /\ call.result = Returned(Clamp(Trunc(RDiv(weighted, total))))

\* sleep 8 and resting_hr at baseline (100, 100) with hrv_ms 40 and no
\* baseline: (35 + 25 + 50 * 0.10) / 0.70 = 92.86, returned as 92; with the
\* HRV component at weight 0.20 the result would be 87
C25_Witness ==
    /\ IsRecoveryCall
    /\ call.args.sleep_hours = I(8)
    /\ call.args.resting_hr = call.args.baseline_resting_hr
    /\ call.args.hrv_ms = Some(40)
    /\ IsNone(call.args.baseline_hrv)
    /\ ~HasSubjective(call.args)
    /\ TotalWeight(call.args) = R(7, 10)
    /\ call.result = Returned(92)

\* C26: the calories of the athlete allocation, 4 * protein + 4 * carbs +
\* 9 * fat before rounding, are never below the calorie target; they equal it
\* unless the fat was raised to 80% of its minimum, and exceed it only then;
\* the three percentages returned are the shares of this total, to one
\* decimal.
C26_ActualTotal ==
    IsAthleteMacros =>
        LET a == call.args
            r == call.result.value
            grams == AthleteGrams(a.daily_calories, a.weight_kg, a.training_type,
                                  a.training_phase)
            protein_calories == RMul(ProteinOf(a), I(4))
            carbs_calories == RMul(grams.carbs, I(4))
            fat_calories == RMul(grams.fat, I(9))
            total == RAdd(RAdd(protein_calories, carbs_calories), fat_calories)
            floor == RMul(R(8, 10), MinFatOf(a))
            \* what the target leaves for fat beside protein and 100 g of carbs
            left == RDiv(RSub(RSub(I(a.daily_calories), protein_calories), I(400)),
                         I(9))
            clamped == grams.carbs = I(100) /\ grams.fat = floor /\ RLt(left, floor)
            share(calories) == RoundTo(RMul(RDiv(calories, total), I(100)), 10)
        IN  /\ r.protein_grams = RoundTo(grams.protein, 10)
            /\ r.carbs_grams = RoundTo(grams.carbs, 10)
            /\ r.fat_grams = RoundTo(grams.fat, 10)
            /\ grams.protein = ProteinOf(a)
            /\ RLe(I(a.daily_calories), total)
            /\ (RLe(floor, grams.fat) /\ ~clamped) => total = I(a.daily_calories)
            /\ RLt(I(a.daily_calories), total) => clamped
            /\ r.protein_percentage = share(protein_calories)
            /\ r.carbs_percentage = share(carbs_calories)
            /\ r.fat_percentage = share(fat_calories)

\* 1200 kcal for 70 kg of strength training at maintenance: 126 g, 100 g and
\* 44.8 g weigh 1307.2 kcal, of which protein is 38.6% (of 1200 it is 42%)
C26_Witness ==
    /\ IsAthleteMacros
    /\ call.args.daily_calories = 1200
    /\ call.args.weight_kg = I(70)
    /\ call.args.training_type = "strength"
    /\ call.args.training_phase = "maintenance"
    /\ call.result.value.fat_grams = R(448, 10)
    /\ call.result.value.protein_percentage = R(386, 10)

\* 1400 kcal for 70 kg of strength training at maintenance: the carbs are
\* raised to 100 g, the fat lowered from 56 g to 55.1 g, above its floor of
\* 44.8 g, and the total is the target
C26_WitnessExact ==
    /\ IsAthleteMacros
    /\ call.args.daily_calories = 1400
    /\ call.args.weight_kg = I(70)
    /\ call.args.training_type = "strength"
    /\ call.args.training_phase = "maintenance"
    /\ call.result.value.carbs_grams = I(100)
    /\ call.result.value.fat_grams = R(551, 10)

----------------------------------------------------------------------------
(* The readiness score of a logged metric (SpecAthlete)                    *)

\* the readiness score of the request q written over table, were its ACWR
\* component the neutral 50 (a 28-day load of 0 gives calculate_readiness_score
\* that component)
NeutralReadiness(q, table) ==
    LET started == IF IsNone(q.existing) THEN NewMetric(table, q.user_id, q.data)
                   ELSE UpdateFromData(Val(q.existing), q.data)
        loaded == WithTrainingLoad(started, q.data)
        with_loads == WithLoads(loaded, Visible(table, q.existing, loaded), q.data)
        visible == Visible(table, q.existing, with_loads)
        recovery == RecoveryAttribute(with_loads, visible, q.data)
        avg == AvgR({r \in visible : /\ r.user_id = q.user_id
                                     /\ r.date >= q.data.date - AcuteDays
                                     /\ ~IsNone(r.sleep_hours)}, "sleep_hours")
    IN  calculate_readiness_score(
            [recovery_score |-> recovery.value,
             training_load_7day |-> I(0),
             training_load_28day |-> I(0),
             sleep_hours |-> Val(q.data.sleep_hours),
             avg_sleep_hours |-> IF TruthyR(avg) THEN Val(avg) ELSE R(75, 10)])

\* C24: when log_athlete_metrics has computed a recovery score (the request
\* carries sleep_hours and resting_hr) and the chronic load of the written
\* row is 0 or null, the row gets a readiness score, and it is the one whose
\* ACWR component is 50.
C24_NeutralAcwr ==
    [][\A w \in Workers :
          (/\ requests[w].pc = "checked" /\ requests'[w].pc = "idle"
           /\ ComesToWrite(requests[w])
           /\ LoadedRowCurrent(requests[w], metrics)) =>
              LET q == requests[w]
                  row == WrittenRow(q, metrics, metrics')
              IN  ~Positive(row.chronic_load) =>
                      row.readiness_score = Some(NeutralReadiness(q, metrics).value)]_vars

\* a row with sleep and resting heart rate and no load in its 28 days is
\* stored without a readiness score
C24_Skipped ==
    \A r \in metrics :
        (~IsNone(r.sleep_hours) /\ ~IsNone(r.resting_hr) /\ IsNone(r.chronic_load))
            => ~IsNone(r.readiness_score)

\* a row whose 28-day load is 0 gets the readiness of ACWR component 0: 70
\* where the neutral component gives 85
C24_Substituted ==
    \A r \in metrics :
        (~IsNone(r.chronic_load) /\ RIsZero(Val(r.chronic_load)))
            => r.readiness_score # Some(70)

----------------------------------------------------------------------------
(* app/api/v1/user.py: complete_onboarding and update_profile, under       *)
(* SpecProfile.  Of the columns of user_profiles the model keeps those the *)
(* goals are computed from, the goals themselves, target_weight (a column  *)
(* no goal depends on) and onboarding_completed.                           *)

ValueError == [raises |-> TRUE, value |-> "ValueError"]

\* ActivityLevel(value) and GoalType(value): the member, or ValueError
ActivityLevel(value) ==
    IF value \in {"sedentary", "light", "moderate", "active", "very_active"}
    THEN Returned(value) ELSE ValueError

GoalType(value) ==
    IF value \in {"lose_weight", "maintain", "gain_muscle", "improve_health"}
    THEN Returned(value) ELSE ValueError

\* a response: the status code, and the request body it answers
Response(endpoint, status, data) ==
    [endpoint |-> endpoint, status |-> status, data |-> data]

GoalColumns ==
    {"bmr", "tdee", "daily_calorie_goal", "protein_goal", "carbs_goal", "fat_goal",
     "daily_water_goal"}

\* profile.bmr = goals["bmr"] ... profile.daily_water_goal = goals["water_ml"]
WithGoals(p, goals) ==
    [p EXCEPT !.bmr = Some(goals.bmr),
              !.tdee = Some(goals.tdee),
              !.daily_calorie_goal = Some(goals.daily_calories),
              !.protein_goal = Some(goals.protein_grams),
              !.carbs_goal = Some(goals.carbs_grams),
              !.fat_goal = Some(goals.fat_grams),
              !.daily_water_goal = Some(goals.water_ml)]

\* UserProfile(user_id=current_user.id): the columns before anything is set
NewProfile ==
    [height |-> None, current_weight |-> None, target_weight |-> None,
     birth_date |-> None, gender |-> None,
     activity_level |-> Some("moderate"), goal_type |-> Some("maintain"),
     bmr |-> None, tdee |-> None, daily_calorie_goal |-> None,
     protein_goal |-> None, carbs_goal |-> None, fat_goal |-> None,
     daily_water_goal |-> Some(2500), onboarding_completed |-> FALSE]

\* lines 117-187: the profile and is_athlete stored for the body data, or the
\* status of the refusal
complete_onboarding(data, existing_profile, is_athlete, today) ==
    IF ~IsNone(existing_profile) /\ Val(existing_profile).onboarding_completed
    THEN [status |-> 400, profile |-> existing_profile, is_athlete |-> is_athlete]
    ELSE
    LET goals ==
            calculate_all_nutrition_goals(data.current_weight, data.height,
                                          data.birth_date, data.gender,
                                          data.activity_level, data.goal_type,
                                          data.is_athlete, None, None, today).value
        started == IF ~IsNone(existing_profile) THEN Val(existing_profile)
                   ELSE NewProfile
        filled == [started EXCEPT !.height = Some(data.height),
                                  !.current_weight = Some(data.current_weight),
                                  !.target_weight = data.target_weight,
                                  !.birth_date = Some(data.birth_date),
                                  !.gender = Some(data.gender),
                                  !.activity_level = Some(data.activity_level),
                                  !.goal_type = Some(data.goal_type)]
    IN  [status |-> 200,
         profile |-> Some([WithGoals(filled, goals)
                              EXCEPT !.onboarding_completed = TRUE]),
         is_athlete |-> data.is_athlete]

\* lines 81-85: setattr for every field of the body that is not null
Applied(p, update_data) ==
    [c \in DOMAIN p |->
        IF c \in DOMAIN update_data /\ ~IsNone(update_data[c])
        THEN update_data[c] ELSE p[c]]

RecalculatedFields == {"current_weight", "height", "activity_level", "goal_type"}

\* lines 63-114: the profile stored for the body update_data (the fields the
\* request sets, null ones included), or the status of the failure
update_profile(update_data, stored, is_athlete, today) ==
    IF IsNone(stored) THEN [status |-> 404, profile |-> stored]
    ELSE
    LET p == Applied(Val(stored), update_data)
        needs_recalculation == DOMAIN update_data \cap RecalculatedFields # {}
        activity_level == ActivityLevel(Val(p.activity_level))
        goal_type == GoalType(Val(p.goal_type))
        goals ==
            calculate_all_nutrition_goals(Val(p.current_weight), Val(p.height),
                                          Val(p.birth_date), Val(p.gender),
                                          activity_level.value, goal_type.value,
                                          is_athlete, None, None, today).value
    IN  IF needs_recalculation /\ ~IsNone(p.birth_date) /\ ~IsNone(p.gender)
        THEN IF activity_level.raises \/ goal_type.raises
             THEN [status |-> 500, profile |-> stored]
             ELSE [status |-> 200, profile |-> Some(WithGoals(p, goals))]
        ELSE [status |-> 200, profile |-> Some(p)]

\* OnboardingData: the validated bodies
OnboardingBodies ==
    [height : {I(175)},
     current_weight : {I(70), R(412, 5)},
     target_weight : {None},
     birth_date : {Date(1990, 6, 15)},
     gender : {"male", "female"},
     activity_level : {"sedentary", "moderate"},
     goal_type : {"lose_weight"},
     is_athlete : BOOLEAN]

\* ProfileUpdate: every field is optional and unvalidated; a body sets some
\* fields, possibly to null
ProfileUpdates ==
    { <<>>,
      "target_weight" :> Some(I(65)),
      "current_weight" :> Some(I(70)),
      "current_weight" :> Some(R(412, 5)),
      "current_weight" :> None,
      "height" :> Some(R(3301, 20)),
      "activity_level" :> Some("moderate"),
      "activity_level" :> Some("extreme"),
      "goal_type" :> Some("gain_muscle"),
      ("current_weight" :> Some(I(70))) @@ ("goal_type" :> Some("lose_weight")) }

CompleteOnboarding ==
    /\ \E data \in OnboardingBodies :
          \E done \in {complete_onboarding(data, user_profile,
                                           current_user.is_athlete, clock)} :
              /\ user_profile' = done.profile
              /\ current_user' = [current_user EXCEPT !.is_athlete = done.is_athlete]
              /\ answer' = Some(Response("complete_onboarding", done.status, data))
    /\ UNCHANGED <<call, metrics, requests, calls, summary, clock, earlier,
                   fasting_logs, utcnow>>

UpdateProfile ==
    /\ \E update_data \in ProfileUpdates :
          \E done \in {update_profile(update_data, user_profile,
                                      current_user.is_athlete, clock)} :
              /\ user_profile' = done.profile
              /\ answer' = Some(Response("update_profile", done.status, update_data))
    /\ UNCHANGED <<call, metrics, requests, calls, summary, clock, earlier,
                   current_user, fasting_logs, utcnow>>

NextProfile == CompleteOnboarding \/ UpdateProfile \/ Tick

SpecProfile == InitScore /\ [][NextProfile]_vars

Goals(p) == [c \in GoalColumns |-> p[c]]

\* the goals calculate_all_nutrition_goals gives for the stored columns
GoalsFor(p, is_athlete, today) ==
    Goals(WithGoals(p, calculate_all_nutrition_goals(
                           Val(p.current_weight), Val(p.height), Val(p.birth_date),
                           Val(p.gender), Val(p.activity_level), Val(p.goal_type),
                           is_athlete, None, None, today).value))

\* C21: after complete_onboarding and after every update_profile that
\* follows it, the stored bmr, tdee, calorie, macro and water goals are those
\* calculate_all_nutrition_goals gives for the stored weight, height, birth
\* date, gender, activity level and goal type; and an update that sets none
\* of current_weight, height, activity_level and goal_type leaves the stored
\* goals unchanged.
C21_GoalsRecomputed ==
    [][(/\ answer' # answer \/ user_profile' # user_profile
        /\ ~IsNone(answer')
        /\ Val(answer').endpoint \in {"complete_onboarding", "update_profile"}
        /\ Val(answer').status = 200) =>
          LET p == Val(user_profile')
          IN  /\ Goals(p) = GoalsFor(p, current_user'.is_athlete, clock')
              /\ (/\ Val(answer').endpoint = "update_profile"
                  /\ DOMAIN Val(answer').data \cap RecalculatedFields = {})
                     => Goals(p) = Goals(Val(user_profile))]_vars

----------------------------------------------------------------------------
(* app/services/gamification.py: add_xp and update_streak, under           *)
(* SpecStreak                                                              *)

IsLeapYear(year) == year % 4 = 0 /\ (year % 100 # 0 \/ year % 400 = 0)

DaysInMonth(year, month) ==
    IF month = 2 THEN (IF IsLeapYear(year) THEN 29 ELSE 28)
    ELSE IF month \in {4, 6, 9, 11} THEN 30 ELSE 31

\* date + timedelta(days=1)
DayAfter(date) ==
    IF date[3] < DaysInMonth(date[1], date[2]) THEN Date(date[1], date[2], date[3] + 1)
    ELSE IF date[2] < 12 THEN Date(date[1], date[2] + 1, 1)
    ELSE Date(date[1] + 1, 1, 1)

\* date - timedelta(days=1)
DayBefore(date) ==
    IF date[3] > 1 THEN Date(date[1], date[2], date[3] - 1)
    ELSE IF date[2] > 1
         THEN Date(date[1], date[2] - 1, DaysInMonth(date[1], date[2] - 1))
         ELSE Date(date[1] - 1, 12, 31)

\* XP_CONFIG.get(action_type, 0)
XpConfig(action_type) ==
    CASE action_type = "meal_logged" -> 10
      [] action_type = "meal_with_photo" -> 15
      [] action_type = "meal_with_macros" -> 5
      [] action_type = "first_meal_of_day" -> 5
      [] action_type = "workout_completed" -> 25
      [] action_type = "workout_30_min" -> 10
      [] action_type = "workout_60_min" -> 20
      [] action_type = "cardio_5km" -> 15
      [] action_type = "water_goal_reached" -> 10
      [] action_type = "water_logged" -> 2
      [] action_type = "weight_logged" -> 5
      [] action_type = "streak_3_days" -> 25
      [] action_type = "streak_7_days" -> 50
      [] action_type = "streak_14_days" -> 100
      [] action_type = "streak_30_days" -> 250
      [] action_type = "streak_daily_bonus" -> 5
      [] action_type = "fasting_completed" -> 30
      [] action_type = "fasting_16h" -> 20
      [] action_type = "fasting_20h" -> 40
      [] action_type = "post_created" -> 10
      [] action_type = "post_liked" -> 2
      [] action_type = "meal_copied_by_others" -> 5
      [] action_type = "achievement_unlocked" -> 50
      [] OTHER -> 0

LEVEL_THRESHOLDS ==
    <<0, 100, 250, 500, 850, 1300, 1900, 2650, 3550, 4650, 6000, 7600, 9500, 11700,
      14200, 17000, 20200, 23800, 27800, 32200>>

\* lines 136-150
calculate_level(xp) ==
    LET reached == {i \in DOMAIN LEVEL_THRESHOLDS :
                       \A j \in 1..i : xp >= LEVEL_THRESHOLDS[j]}
        level == IF reached = {} THEN 1
                 ELSE CHOOSE i \in reached : \A j \in reached : j <= i
    IN  IF xp >= LEVEL_THRESHOLDS[Len(LEVEL_THRESHOLDS)]
        THEN 20 + ((xp - LEVEL_THRESHOLDS[Len(LEVEL_THRESHOLDS)]) \div 5000)
        ELSE level

\* lines 88-134: the user after add_xp; custom_amount is None or Some(n)
add_xp(u, action_type, custom_amount) ==
    LET base == IF ~IsNone(custom_amount) /\ Val(custom_amount) # 0
                THEN Val(custom_amount) ELSE XpConfig(action_type)
        streak_bonus == IF u.streak_days > 0
                        THEN (IF u.streak_days * XpConfig("streak_daily_bonus") < 50
                              THEN u.streak_days * XpConfig("streak_daily_bonus")
                              ELSE 50)
                        ELSE 0
        xp_amount == base + streak_bonus
        xp == u.xp + xp_amount
        new_level == calculate_level(xp)
    IN  IF base <= 0 THEN u
        ELSE [u EXCEPT !.xp = xp,
                       !.level = IF new_level > u.level THEN new_level ELSE u.level,
                       !.xp_logs = Append(u.xp_logs,
                                          [xp_amount |-> xp_amount,
                                           action_type |-> action_type])]

\* lines 213-225: bonuses.get(streak_days, 0)
StreakBonus(streak_days) ==
    CASE streak_days = 3 -> 25
      [] streak_days = 7 -> 50
      [] streak_days = 14 -> 100
      [] streak_days = 30 -> 250
      [] streak_days = 60 -> 500
      [] streak_days = 90 -> 750
      [] streak_days = 180 -> 1500
      [] streak_days = 365 -> 5000
      [] OTHER -> 0

streak_milestones == {3, 7, 14, 30, 60, 90, 180, 365}

\* "streak_3_days" ... "streak_365_days"
StreakAction(streak_days) ==
    CASE streak_days = 3 -> "streak_3_days"
      [] streak_days = 7 -> "streak_7_days"
      [] streak_days = 14 -> "streak_14_days"
      [] streak_days = 30 -> "streak_30_days"
      [] streak_days = 60 -> "streak_60_days"
      [] streak_days = 90 -> "streak_90_days"
      [] streak_days = 180 -> "streak_180_days"
      [] streak_days = 365 -> "streak_365_days"

UpdateStreakCountsEveryCall(u, today) ==
    LET counted == [u EXCEPT !.streak_days = u.streak_days + 1]
    IN  [user |-> [counted EXCEPT !.last_activity_date = Some(today)],
         milestone_reached |-> FALSE]

\* lines 177-211: the user after update_streak, and milestone_reached
update_streak(u, today) ==
    LET counted == [u EXCEPT !.streak_days = u.streak_days + 1]
        milestone == counted.streak_days \in streak_milestones
        awarded == IF milestone
                   THEN add_xp(counted, StreakAction(counted.streak_days),
                               Some(StreakBonus(counted.streak_days)))
                   ELSE counted
        updated ==
            IF IsNone(u.last_activity_date) THEN [u EXCEPT !.streak_days = 1]
            ELSE IF Val(u.last_activity_date) = today THEN u
            ELSE IF Val(u.last_activity_date) = DayBefore(today) THEN awarded
            ELSE [u EXCEPT !.streak_days = 1]
    IN  [user |-> [updated EXCEPT !.last_activity_date = Some(today)],
         milestone_reached |->
             /\ ~IsNone(u.last_activity_date)
             /\ Val(u.last_activity_date) = DayBefore(today)
             /\ milestone]

MaxDays == 17

RECURSIVE DaysAfter(_, _)
DaysAfter(date, n) == IF n = 0 THEN date ELSE DaysAfter(DayAfter(date), n - 1)

\* the system date moves to the next day
Midnight ==
    /\ clock \in {DaysAfter(ClockDays[1], n) : n \in 0..(MaxDays - 1)}
    /\ clock' = DayAfter(clock)
    /\ UNCHANGED <<call, metrics, requests, calls, summary, earlier,
                   current_user, user_profile, fasting_logs, utcnow, answer>>

\* an endpoint calls gamification.update_streak(current_user)
UpdateStreak ==
    /\ LET done == update_streak(current_user, clock)
       IN  /\ current_user' = done.user
           /\ answer' = Some(Response("update_streak", 200,
                                      <<done.user.streak_days,
                                        done.milestone_reached>>))
    /\ UNCHANGED <<call, metrics, requests, calls, summary, clock, earlier,
                   user_profile, fasting_logs, utcnow>>

NextStreak == UpdateStreak \/ Midnight

SpecStreak == InitScore /\ [][NextStreak]_vars

\* a is an earlier day than b
DateLt(a, b) ==
    \/ a[1] < b[1]
    \/ a[1] = b[1] /\ a[2] < b[2]
    \/ a[1] = b[1] /\ a[2] = b[2] /\ a[3] < b[3]

\* C30: after every call of update_streak streak_days is at least 1 and
\* last_activity_date is the day of the call; a call on the day of the last
\* activity leaves streak_days as it was and awards no XP; a call on the day
\* after it adds exactly 1; a call two or more days after it sets 1.
C30_StreakByDay ==
    [][(/\ current_user' # current_user \/ answer' # answer
        /\ ~IsNone(answer')
        /\ Val(answer').endpoint = "update_streak") =>
          LET before == current_user
              after == current_user'
              last == before.last_activity_date
          IN  /\ after.streak_days >= 1
              /\ after.last_activity_date = Some(clock)
              /\ Val(answer').data[1] = after.streak_days
              /\ last = Some(clock) =>
                    /\ after.streak_days = before.streak_days
                    /\ after.xp = before.xp
                    /\ after.xp_logs = before.xp_logs
                    /\ Val(answer').data[2] = FALSE
              /\ last = Some(DayBefore(clock)) =>
                    after.streak_days = before.streak_days + 1
              /\ (~IsNone(last) /\ DateLt(Val(last), DayBefore(clock))) =>
                    /\ after.streak_days = 1
                    /\ after.xp = before.xp]_vars

\* the third day in a row, ending the month: streak 3 and the milestone's
\* 25 XP with the streak bonus of 15
C30_Witness ==
    /\ clock = Date(2024, 7, 1)
    /\ current_user.last_activity_date = Some(clock)
    /\ current_user.streak_days = 3
    /\ current_user.xp = 40
    /\ answer = Some(Response("update_streak", 200, <<3, TRUE>>))

\* a call after a gap: the streak of 7 is back at 1, the XP stay
C30_WitnessReset ==
    /\ current_user.streak_days = 1
    /\ current_user.xp = 40 + 85
    /\ current_user.last_activity_date = Some(clock)
    /\ Len(current_user.xp_logs) = 2

----------------------------------------------------------------------------
(* app/api/v1/fasting.py, under SpecFasting.  Times are whole hours of     *)
(* datetime.utcnow().  Of the columns of fasting_logs the model keeps the  *)
(* type, the times, the status flags and the hours; notes, moods and the   *)
(* row timestamps, which nothing computes from, are left out.  A request   *)
(* runs in a thread of the pool with a session of its own: its first query *)
(* and the rest of the handler are two steps, and the requests of other    *)
(* threads can commit between them.                                        *)

\* FASTING_HOURS.get(fasting_type, 16)
FASTING_HOURS(fasting_type) ==
    CASE fasting_type = "16:8" -> 16
      [] fasting_type = "18:6" -> 18
      [] fasting_type = "20:4" -> 20
      [] fasting_type = "OMAD" -> 23
      [] fasting_type = "5:2" -> 24
      [] fasting_type = "custom" -> 0
      [] OTHER -> 16

\* lines 174-177
TargetHours(data) ==
    IF data.fasting_type = "custom" /\ ~IsNone(data.custom_hours)
       /\ ~RIsZero(Val(data.custom_hours))
    THEN Val(data.custom_hours)
    ELSE I(FASTING_HOURS(data.fasting_type))

\* lines 72-112, in hours; the elapsed time divided by a target of 0 raises
calculate_progress(fast, at) ==
    LET ended == ~IsNone(fast.actual_end_time)
        elapsed == IF ended THEN Val(fast.actual_end_time) - fast.start_time
                   ELSE at - fast.start_time
        progress == RMin(I(100), RMul(RDiv(I(elapsed), fast.target_hours), I(100)))
        remaining == RMax(I(0), RSub(fast.target_hours, I(elapsed)))
    IN  IF RIsZero(fast.target_hours) THEN ZeroDivisionError
        ELSE Returned([progress_percentage |-> RoundTo(progress, 10),
                       time_remaining_seconds |->
                           IF ended \/ fast.cancelled THEN 0
                           ELSE Trunc(RMul(remaining, I(3600)))])

\* lines 182-191: FastingLog(...), with the column defaults
NewFast(table, data, at) ==
    [id |-> Cardinality(table) + 1,
     fasting_type |-> data.fasting_type,
     start_time |-> at,
     actual_end_time |-> None,
     is_active |-> TRUE, completed |-> FALSE, cancelled |-> FALSE,
     target_hours |-> TargetHours(data),
     actual_hours |-> None]

\* the row with this id as the table holds it
StoredFast(table, id) == CHOOSE f \in table : f.id = id

\* db.commit() of a loaded row: UPDATE of the columns whose value differs
\* from the loaded one
Committed(stored, loaded, changed) ==
    [c \in DOMAIN stored |-> IF changed[c] # loaded[c] THEN changed[c] ELSE stored[c]]

\* lines 232-238: end_fast on the loaded row
Ended(fast, at) ==
    LET actual_hours == I(at - fast.start_time)
    IN  [fast EXCEPT !.actual_end_time = Some(at),
                     !.actual_hours = Some(RoundTo(actual_hours, 100)),
                     !.is_active = FALSE,
                     !.completed = RLe(RMul(fast.target_hours, R(9, 10)),
                                       actual_hours)]

\* lines 300-305: cancel_fast on the loaded row
Cancelled(fast, at) ==
    [fast EXCEPT !.actual_end_time = Some(at),
                 !.actual_hours = Some(RoundTo(I(at - fast.start_time), 100)),
                 !.is_active = FALSE,
                 !.cancelled = TRUE]

\* lines 247-252
XpAction(fast) ==
    IF RLe(I(20), fast.target_hours) THEN "fasting_20h"
    ELSE IF RLe(I(16), fast.target_hours) THEN "fasting_16h"
    ELSE "fasting_completed"

\* init_default_achievements, which main.py runs at startup: the
\* achievements whose criteria the model can meet (the user of the model
\* logs no meal, workout or post)
DefaultAchievements ==
    << [name |-> "Getting Started", criteria_type |-> "streak",
        criteria_value |-> 3, xp_reward |-> 25],
       [name |-> "Week Warrior", criteria_type |-> "streak",
        criteria_value |-> 7, xp_reward |-> 50],
       [name |-> "Two Week Champion", criteria_type |-> "streak",
        criteria_value |-> 14, xp_reward |-> 100],
       [name |-> "Monthly Master", criteria_type |-> "streak",
        criteria_value |-> 30, xp_reward |-> 250],
       [name |-> "Level 5", criteria_type |-> "level",
        criteria_value |-> 5, xp_reward |-> 50],
       [name |-> "Level 10", criteria_type |-> "level",
        criteria_value |-> 10, xp_reward |-> 100],
       [name |-> "Level 20", criteria_type |-> "level",
        criteria_value |-> 20, xp_reward |-> 250],
       [name |-> "First Fast", criteria_type |-> "fasting_completed",
        criteria_value |-> 1, xp_reward |-> 20],
       [name |-> "Fasting Regular", criteria_type |-> "fasting_completed",
        criteria_value |-> 10, xp_reward |-> 75] >>

\* lines 271-302
CriteriaMet(u, achievement, table) ==
    CASE achievement.criteria_type = "streak" ->
             u.streak_days >= achievement.criteria_value
      [] achievement.criteria_type = "level" ->
             u.level >= achievement.criteria_value
      [] achievement.criteria_type = "total_xp" ->
             u.xp >= achievement.criteria_value
      [] achievement.criteria_type = "fasting_completed" ->
             Cardinality({f \in table : f.completed}) >= achievement.criteria_value
      [] OTHER -> FALSE

\* lines 227-269: the loop over the achievements from the i-th on, in the
\* order of their insertion
RECURSIVE CheckFrom(_, _, _)
CheckFrom(u, i, table) ==
    IF i > Len(DefaultAchievements) THEN u
    ELSE LET achievement == DefaultAchievements[i]
             earned == [u EXCEPT !.achievements = @ \cup {achievement.name}]
         IN  IF achievement.name \in u.achievements
                \/ ~CriteriaMet(u, achievement, table)
             THEN CheckFrom(u, i + 1, table)
             ELSE CheckFrom(IF achievement.xp_reward > 0
                            THEN add_xp(earned, "achievement_unlocked",
                                        Some(achievement.xp_reward))
                            ELSE earned,
                            i + 1, table)

check_achievements(u, table) == CheckFrom(u, 1, table)

\* the user row after the commit of add_xp on the row the request loaded:
\* xp and level are written as computed from the loaded row, the XP log is
\* inserted
AfterFirstXp(stored, loaded, action_type) ==
    LET changed == add_xp(loaded, action_type, None)
    IN  [stored EXCEPT !.xp = changed.xp,
                       !.level = IF changed.level # loaded.level
                                 THEN changed.level ELSE stored.level,
                       !.xp_logs = Append(stored.xp_logs,
                                          changed.xp_logs[Len(changed.xp_logs)])]

\* lines 242-258: add_xp commits, the session reloads the user row, and
\* update_streak and check_achievements work on the reloaded row
Rewarded(stored, loaded, fast, table, today) ==
    LET first == AfterFirstXp(stored, loaded, XpAction(fast))
        second == update_streak(first, today).user
    IN  check_achievements(second, table)

FastingStarts ==
    {[fasting_type |-> "16:8", custom_hours |-> None],
     [fasting_type |-> "warrior", custom_hours |-> None],
     [fasting_type |-> "custom", custom_hours |-> Some(I(8))],
     [fasting_type |-> "custom", custom_hours |-> Some(I(-8))],
     [fasting_type |-> "custom", custom_hours |-> None]}

Active(table) == {f \in table : f.is_active}

HoursPerStep == 8

MaxHours == 24

\* datetime.utcnow() and date.today() move on
Pass ==
    /\ utcnow + HoursPerStep <= MaxHours
    /\ utcnow' = utcnow + HoursPerStep
    /\ clock' = DaysAfter(ClockDays[1], utcnow' \div 24)
    /\ UNCHANGED <<call, metrics, requests, calls, summary, earlier,
                   current_user, user_profile, fasting_logs, answer>>

\* the query for the user's active fast, .first(), of start_fast, end_fast
\* and cancel_fast, with the user row the request has loaded
FastCheck(w) ==
    /\ requests[w].pc = "idle"
    /\ \A v \in Workers : v < w => requests[v].pc # "idle"
    /\ calls < MaxCalls
    /\ calls' = calls + 1
    /\ \E fast \in (IF Active(fasting_logs) = {} THEN {None}
                    ELSE {Some(f) : f \in Active(fasting_logs)}) :
         \/ \E data \in FastingStarts :
               requests' = [requests EXCEPT ![w] =
                               [pc |-> "start_fast", data |-> data, fast |-> fast,
                                user |-> current_user]]
         \/ \E endpoint \in {"end_fast", "cancel_fast"} :
               requests' = [requests EXCEPT ![w] =
                               [pc |-> endpoint, data |-> None, fast |-> fast,
                                user |-> current_user]]
    /\ UNCHANGED <<call, metrics, summary, clock, earlier, current_user,
                   user_profile, fasting_logs, utcnow, answer>>

\* lines 166-213
StartFast(w) ==
    /\ requests[w].pc = "start_fast"
    /\ LET q == requests[w]
       IN  IF ~IsNone(q.fast)
           THEN /\ answer' = Some(Response("start_fast", 400, q.data))
                /\ UNCHANGED fasting_logs
           ELSE /\ fasting_logs' =
                       fasting_logs \cup {NewFast(fasting_logs, q.data, utcnow)}
                /\ answer' = Some(Response("start_fast", 200, q.data))
    /\ requests' = [requests EXCEPT ![w] = Idle]
    /\ UNCHANGED <<call, metrics, calls, summary, clock, earlier, current_user,
                   user_profile, utcnow>>

\* lines 229-283: the response is built from the refreshed row; when
\* calculate_progress raises, the fast has been committed already
EndFast(w) ==
    /\ requests[w].pc = "end_fast"
    /\ LET q == requests[w]
       IN  IF IsNone(q.fast)
           THEN /\ answer' = Some(Response("end_fast", 404, None))
                /\ UNCHANGED <<fasting_logs, current_user>>
           ELSE LET fast == Ended(Val(q.fast), utcnow)
                    stored == StoredFast(fasting_logs, fast.id)
                    row == Committed(stored, Val(q.fast), fast)
                    table == (fasting_logs \ {stored}) \cup {row}
                    progress == calculate_progress(row, utcnow)
                IN  /\ fasting_logs' = table
                    /\ current_user' =
                           IF fast.completed
                           THEN Rewarded(current_user, q.user, fast, table, clock)
                           ELSE current_user
                    /\ answer' =
                           IF progress.raises
                           THEN Some(Response("end_fast", 500, None))
                           ELSE Some(Response("end_fast", 200, progress.value))
    /\ requests' = [requests EXCEPT ![w] = Idle]
    /\ UNCHANGED <<call, metrics, calls, summary, clock, earlier, user_profile,
                   utcnow>>

\* lines 296-309
CancelFast(w) ==
    /\ requests[w].pc = "cancel_fast"
    /\ LET q == requests[w]
       IN  IF IsNone(q.fast)
           THEN /\ answer' = Some(Response("cancel_fast", 404, None))
                /\ UNCHANGED fasting_logs
           ELSE LET fast == Cancelled(Val(q.fast), utcnow)
                    stored == StoredFast(fasting_logs, fast.id)
                    row == Committed(stored, Val(q.fast), fast)
                IN  /\ fasting_logs' = (fasting_logs \ {stored}) \cup {row}
                    /\ answer' = Some(Response("cancel_fast", 200,
                                               fast.actual_hours))
    /\ requests' = [requests EXCEPT ![w] = Idle]
    /\ UNCHANGED <<call, metrics, calls, summary, clock, earlier, current_user,
                   user_profile, utcnow>>

\* lines 119-152: one query and the response
GetCurrentFast ==
    /\ \E fast \in (IF Active(fasting_logs) = {} THEN {None}
                    ELSE {Some(f) : f \in Active(fasting_logs)}) :
          answer' =
              IF IsNone(fast) THEN Some(Response("get_current_fast", 200, None))
              ELSE LET progress == calculate_progress(Val(fast), utcnow)
                   IN  IF progress.raises
                       THEN Some(Response("get_current_fast", 500, None))
                       ELSE Some(Response("get_current_fast", 200, progress.value))
    /\ UNCHANGED <<call, metrics, requests, calls, summary, clock, earlier,
                   current_user, user_profile, fasting_logs, utcnow>>

\* lines 312-347: calculate_progress for every fast of the user
GetFastingHistory ==
    /\ answer' =
          IF \E f \in fasting_logs : calculate_progress(f, utcnow).raises
          THEN Some(Response("get_fasting_history", 500, None))
          ELSE Some(Response("get_fasting_history", 200,
                             Cardinality(fasting_logs)))
    /\ UNCHANGED <<call, metrics, requests, calls, summary, clock, earlier,
                   current_user, user_profile, fasting_logs, utcnow>>

NextFasting ==
    \/ \E w \in Workers : FastCheck(w)
    \/ \E w \in Workers : StartFast(w)
    \/ \E w \in Workers : EndFast(w)
    \/ \E w \in Workers : CancelFast(w)
    \/ GetCurrentFast
    \/ GetFastingHistory
    \/ Pass

SpecFasting == InitAthlete /\ [][NextFasting]_vars

\* C27: the user never has more than one active fast, whatever the
\* interleaving of the requests, and a start_fast that finds an active fast
\* answers 400 and leaves the stored fasts as they are.
C27_OneActiveFast ==
    [][/\ Cardinality(Active(fasting_logs')) <= 1
       /\ \A w \in Workers :
             (/\ requests[w].pc = "start_fast" /\ requests'[w].pc = "idle"
              /\ ~IsNone(requests[w].fast)) =>
                 /\ Val(answer').status = 400
                 /\ fasting_logs' = fasting_logs]_vars

\* two fasts of the user are active
C27_TwoActive == Cardinality(Active(fasting_logs)) <= 1

\* C28: a fast goes from active to ended or from active to cancelled and
\* stays there: no fast is both completed and cancelled, every inactive fast
\* has actual_end_time and actual_hours, a completed fast was ended with
\* actual_hours of at least 90% of target_hours, and an inactive fast is
\* never written again.
C28_Lifecycle ==
    [][/\ \A f \in fasting_logs' :
             /\ ~(f.completed /\ f.cancelled)
             /\ ~f.is_active =>
                   ~IsNone(f.actual_end_time) /\ ~IsNone(f.actual_hours)
             /\ f.completed =>
                   /\ ~f.is_active
                   /\ ~IsNone(f.actual_hours)
                   /\ RLe(RMul(f.target_hours, R(9, 10)), Val(f.actual_hours))
       /\ \A f \in fasting_logs : ~f.is_active => f \in fasting_logs']_vars

\* a fast is both completed and cancelled
C28_CompletedAndCancelled ==
    \A f \in fasting_logs : ~(f.completed /\ f.cancelled)

\* C29: for every fast start_fast has stored, calculate_progress returns a
\* progress_percentage from 0 to 100 and a time_remaining_seconds of at
\* least 0, and get_current_fast, end_fast and get_fasting_history answer
\* without a server error.
C29_ProgressDefined ==
    /\ \A f \in fasting_logs :
          LET progress == calculate_progress(f, utcnow)
          IN  /\ ~progress.raises
              /\ RLe(I(0), progress.value.progress_percentage)
              /\ RLe(progress.value.progress_percentage, I(100))
              /\ progress.value.time_remaining_seconds >= 0
    /\ (/\ ~IsNone(answer)
        /\ Val(answer).endpoint \in {"get_current_fast", "end_fast",
                                     "get_fasting_history"})
          => Val(answer).status # 500

\* end_fast has ended a fast, completed, and answered with a server error
C29_EndedWithError ==
    ~(/\ ~IsNone(answer)
      /\ Val(answer).endpoint = "end_fast"
      /\ Val(answer).status = 500
      /\ \E f \in fasting_logs : f.completed /\ RIsZero(f.target_hours))

\* a fast with a negative target has a negative progress
C29_NegativeProgress ==
    \A f \in fasting_logs :
        RIsZero(f.target_hours)
        \/ RLe(I(0), calculate_progress(f, utcnow).value.progress_percentage)

====
